---- MODULE Spec2Model ----
(***************************************************************************)
(* Conversational memory, feedback workflow, exemplar retrieval and the    *)
(* structured-response parser of the journal-entry analyzer.               *)
(*                                                                         *)
(* The repository ships the store in three implementations:                *)
(*   "manager"  backend/enhanced_chat_manager.py (hot deque per user over  *)
(*              ChromaDB collections),                                     *)
(*   "updated"  sap_chat_system_updated.py (the one backend/app.py uses),  *)
(*   "fixed"    sap_chat_system_fixed.py (the stand-alone chat loop),      *)
(* and the parser in backend/services.py ("parser").  A behaviour runs one *)
(* of them; impl names it and never changes.                               *)
(*                                                                         *)
(* Texts are sequences of tokens.  The tokens the code searches for        *)
(* ("Q: ", "\n", "Feedback: ", "{", ...) are tokens of their own, so that  *)
(* split, replace, startswith and find act on texts as they do in Python.  *)
(* Python's None is the text None for text fields and NoRating for the     *)
(* rating (callers pass ratings 1..5 only).                                *)
(***************************************************************************)
EXTENDS Integers, Sequences, FiniteSets, TLC

VARIABLES
    impl,                  \* which implementation this behaviour runs
    bound,                 \* where this behaviour stops: calls, records, index entries,
                           \* messages
    env,                   \* which collaborators answer: generator, archive file, ChromaDB
    conversations,         \* data["conversations"] of the JSON archive file
    conversation_history,  \* SAPChatSystem.conversation_history, per user's instance
    chroma,                \* entries of the conversation collection(s) in ChromaDB
    clock,                 \* datetime.utcnow()
    lastCall,              \* what the last feedback call did and returned
    recent_conversations,  \* EnhancedChatManager.recent_conversations
    conversations_collection,  \* the "conversations" collection of the manager
    messages_collection,   \* the "messages" collection of the manager
    present,               \* the keys of EnhancedChatManager.recent_conversations
    ret,                   \* how the last call of the manager ended, and its value
    pc,                    \* where each request handler stands in create_new_conversation
    req,                   \* the arguments and locals of each request handler
    running,               \* the handler the event loop is running, "none" between handlers
    script,                \* the calls the caller of the manager makes before it reads
    raw,                   \* response_content handed to parse_json_response
    result                 \* how parse_json_response ended, and its value

sapVars == <<conversations, conversation_history, chroma, lastCall>>

storeVars == <<recent_conversations, conversations_collection, messages_collection, present>>

handlerVars == <<pc, req, running>>

managerVars == <<storeVars, ret, handlerVars, script>>

parserVars == <<raw, result>>

----------------------------------------------------------------------------
(* Bounds of the model *)
MaxRecords == 2     \* records in the JSON archive
MaxIndex == 4       \* entries in the ChromaDB conversation collections
MaxCalls == 3       \* calls of a behaviour of the feedback workflow
MaxAppends == 5     \* appends of a behaviour of the hot tier alone
MaxMessages == 2    \* message pairs appended to the conversations of the manager
MaxFaultCalls == 2  \* calls of a behaviour of the feedback workflow with outages
MaxConversations == 4  \* conversations a user creates before the context is read
MaxLate == 6        \* turns appended to the user's first conversation after that
MaxTail == 8        \* turns appended to the user's newest conversation at the end
MaxStores == 2      \* feedback calls of a behaviour of the index round trip
MaxRated == 4       \* records, index entries and calls of a behaviour of the
                    \* exemplar retrieval

(* Program constants *)
HistoryMaxLen == 3  \* deque(maxlen=3)
max_recent_conversations == 3

Sessions == {"s1", "s2"}

Users == {"u1", "u2"}
Questions == {<<"q1">>, <<"q2">>}
Answers == {<<"a1">>}
Ratings == 1..5
NoRating == 0
None == <<"None">>
Empty == <<>>
Feedbacks == {None, Empty, <<"fb">>}
Corrected == {None}
TopKs == {1, 5}
NL == "\n"
Fence == "<fence>"   \* three backticks

(* what llm.invoke may answer to the improvement prompt, before sanitizing *)
LLMOutputs == {<<"**", "imp", "**">>, <<" ", "#", " ">>}

(* what llm.invoke answers when the request fails: DatabricksLLM.invoke
   returns the text of the error as the content of the response *)
LLMErrors == {<<"Error calling Databricks LLM: ", "timed out">>,
              <<"Error: ", "500", " - ", "Internal Server Error">>}

(* the collaborators: each answers ("up") or fails ("down") *)
AllUp == [llm |-> "up", archive |-> "up", chroma |-> "up"]

Handlers == {"h1", "h2"}

----------------------------------------------------------------------------
(* Python helpers *)

Truthy(t) == t # None /\ t # Empty

Min(a, b) == IF a < b THEN a ELSE b

Last(s) == s[Len(s)]

(* s[-n:] *)
LastN(s, n) == IF Len(s) <= n THEN s ELSE SubSeq(s, Len(s) - n + 1, Len(s))

(* a list in place of the deque: nothing leaves it *)
list_append(dq, x) == Append(dq, x)

(* deque(maxlen=3).append(x) *)
deque_append(dq, x) ==
    IF Len(dq) >= HistoryMaxLen THEN Append(Tail(dq), x) ELSE Append(dq, x)

(* str.replace(tok, '') for a token the code removes *)
Remove(s, tok) == SelectSeq(s, LAMBDA c : c # tok)

(* tok in s *)
Contains(s, tok) == \E i \in 1..Len(s) : s[i] = tok

(* s.startswith(tok) *)
StartsWith(s, tok) == Len(s) > 0 /\ s[1] = tok

(* s.split(tok): the pieces between the occurrences of tok *)
RECURSIVE SplitAt(_, _, _, _)
SplitAt(s, tok, i, cur) ==
    IF i > Len(s) THEN <<cur>>
    ELSE IF s[i] = tok THEN <<cur>> \o SplitAt(s, tok, i + 1, <<>>)
    ELSE SplitAt(s, tok, i + 1, Append(cur, s[i]))

Split(s, tok) == SplitAt(s, tok, 1, <<>>)

(* s.strip() *)
RECURSIVE LStrip(_)
LStrip(s) == IF Len(s) > 0 /\ s[1] \in {" ", NL} THEN LStrip(Tail(s)) ELSE s

RECURSIVE RStrip(_)
RStrip(s) ==
    IF Len(s) > 0 /\ s[Len(s)] \in {" ", NL} THEN RStrip(SubSeq(s, 1, Len(s) - 1)) ELSE s

Strip(s) == RStrip(LStrip(s))

(* list.sort(key=lambda x: x['timestamp']): stable, ascending *)
RECURSIVE InsertByTimestamp(_, _)
InsertByTimestamp(sorted, x) ==
    IF sorted = <<>> THEN <<x>>
    ELSE IF Last(sorted).timestamp <= x.timestamp THEN Append(sorted, x)
    ELSE Append(InsertByTimestamp(SubSeq(sorted, 1, Len(sorted) - 1), x), Last(sorted))

RECURSIVE SortByTimestamp(_)
SortByTimestamp(s) ==
    IF s = <<>> THEN <<>>
    ELSE InsertByTimestamp(SortByTimestamp(SubSeq(s, 1, Len(s) - 1)), Last(s))

(* list.sort(key=lambda x: x.get('rating') or 0, reverse=True): stable *)
RECURSIVE SortByRatingFrom(_, _)
SortByRatingFrom(s, r) ==
    IF r < 0 THEN <<>>
    ELSE SelectSeq(s, LAMBDA c : c.rating = r) \o SortByRatingFrom(s, r - 1)

SortByRatingDesc(s) == SortByRatingFrom(s, 5)

(* [c for c in data["conversations"] if c["user_id"] == user_id] *)
UserConversations(data, u) == SelectSeq(data, LAMBDA c : c.user_id = u)

----------------------------------------------------------------------------
(* The JSON archive *)

(* str(uuid.uuid4()): fresh; the archive only grows, so the position of a
   record in it is an id no other record has *)
Uuid(n) == <<"uuid", n>>

conversation_entry(id, u, ts, q, r, rating, fb, imp) ==
    [conversation_id |-> id, user_id |-> u, timestamp |-> ts, question |-> q,
     response |-> r, rating |-> rating, feedback |-> fb, improved_response |-> imp]

(* the record written twice *)
add_conversation_twice(data, u, ts, q, r, rating, fb, imp) ==
    data \o <<conversation_entry(Uuid(Len(data) + 1), u, ts, q, r, rating, fb, imp),
              conversation_entry(Uuid(Len(data) + 2), u, ts, q, r, rating, fb, imp)>>

(* add_conversation_to_unified_data / add_conversation_to_chat_data *)
add_conversation(data, u, ts, q, r, rating, fb, imp) ==
    Append(data, conversation_entry(Uuid(Len(data) + 1), u, ts, q, r, rating, fb, imp))

(* the test of the scan without "rating is None" *)
Matches_rated_too(conv, u, q, r) ==
    /\ conv.user_id = u
    /\ conv.question = q
    /\ conv.response = r

(* the test of the scan without the user *)
Matches_any_user(conv, u, q, r) ==
    /\ conv.question = q
    /\ conv.response = r
    /\ conv.rating = NoRating

(* the record the reversed scan stops at: the last unrated record of the
   user whose question and response equal the arguments; 0 if there is none *)
Matches(conv, u, q, r) ==
    /\ conv.user_id = u
    /\ conv.question = q
    /\ conv.response = r
    /\ conv.rating = NoRating

(* a scan from the front: the first match *)
MatchIndex_forward(data, u, q, r) ==
    LET hits == {i \in 1..Len(data) : Matches(data[i], u, q, r)}
    IN IF hits = {} THEN 0 ELSE CHOOSE i \in hits : \A j \in hits : i <= j

MatchIndex(data, u, q, r) ==
    LET hits == {i \in 1..Len(data) : Matches(data[i], u, q, r)}
    IN IF hits = {} THEN 0 ELSE CHOOSE i \in hits : \A j \in hits : j <= i

(* sap_chat_system_updated.update_conversation_with_feedback *)
update_conversation_with_feedback_updated(data, u, q, r, rating, fb, imp) ==
    LET i == MatchIndex(data, u, q, r)
    IN IF i = 0 THEN data
       ELSE [data EXCEPT ![i] =
                [@ EXCEPT !.rating = rating,
                          !.feedback = IF Truthy(fb) THEN fb ELSE @,
                          !.improved_response = IF Truthy(imp) THEN imp ELSE @]]

(* sap_chat_system_fixed.update_conversation_with_feedback *)
update_conversation_with_feedback_fixed(data, ts, u, q, r, rating, fb, imp) ==
    LET i == MatchIndex(data, u, q, r)
    IN IF i = 0 THEN add_conversation(data, u, ts, q, r, rating, fb, imp)
       ELSE [data EXCEPT ![i] =
                [@ EXCEPT !.rating = rating, !.feedback = fb, !.improved_response = imp]]

----------------------------------------------------------------------------
(* The hot tier of SAPChatSystem *)

history_entry(q, a, ts) == [question |-> q, answer |-> a, timestamp |-> ts]

(* _load_recent_conversations: the deque of a new instance *)
load_recent(data, u) ==
    LET recent == LastN(SortByTimestamp(UserConversations(data, u)), 3)
    IN [i \in 1..Len(recent) |->
           history_entry(recent[i].question, recent[i].response, recent[i].timestamp)]

(* process_feedback_and_improve: the newest entry takes the improved answer *)
improve_history(dq, q, imp) ==
    IF dq # <<>> /\ Last(dq).question = q /\ Truthy(imp)
    THEN [dq EXCEPT ![Len(dq)].answer = imp]
    ELSE dq

(* get_improved_response: the sanitized answer of the generator *)
Markup == {"**", "*", "###", "##", "#", Fence}

sanitize(content) == Strip(SelectSeq(content, LAMBDA c : c \notin Markup))

(* the gate with the threshold of the other implementation *)
should_improve_below_5(rating, fb) == rating < 5 /\ Truthy(fb)

(* the gate of process_feedback_and_improve *)
should_improve_updated(rating, fb) == rating < 4 /\ Truthy(fb)

should_improve_fixed(rating, fb) == rating < 5 /\ Truthy(fb)

----------------------------------------------------------------------------
(* The similarity index: the ChromaDB conversation collection(s) *)

(* f"conv_{timestamp}_{user_id}_{uuid8}": fresh; the collections only grow *)
ChromaId(n) == <<"conv", n>>

(* "conversations_<user_id>" in sap_chat_system_fixed *)
collection_fixed(u) == <<"conversations_", u>>

(* "unified_conversations" in sap_chat_system_updated *)
collection_updated == <<"unified_conversations">>

index_entry(id, coll, u, ts, doc, rating, fb, imp) ==
    [id |-> id, coll |-> coll, user_id |-> u, timestamp |-> ts, doc |-> doc,
     rating |-> rating, has_feedback |-> Truthy(fb), has_improvement |-> Truthy(imp)]

(* conv_text of sap_chat_system_fixed.store_conversation_in_chromadb *)
conv_text(q, a, fb, imp) ==
    <<"Q: ">> \o q \o <<NL, "A: ">> \o a
        \o (IF Truthy(fb) THEN <<NL, "Feedback: ">> \o fb ELSE <<>>)
        \o (IF Truthy(imp) THEN <<NL, "Improved: ">> \o imp ELSE <<>>)

(* sap_chat_system_fixed.store_conversation_in_chromadb *)
store_conversation_in_chromadb_fixed(index, ts, u, q, a, rating, fb, imp) ==
    Append(index, index_entry(ChromaId(Len(index) + 1), collection_fixed(u), u, ts,
                              conv_text(q, a, fb, imp), rating, fb, imp))

(* messages of _chunk_conversation *)
chunk_messages(q, response, fb, imp) ==
    <<[speaker |-> "] User: ", content |-> q]>>
        \o (IF Truthy(response)
            THEN <<[speaker |-> "] Assistant: ", content |-> response]>> ELSE <<>>)
        \o (IF Truthy(fb)
            THEN <<[speaker |-> "] User: ", content |-> <<"Feedback: ">> \o fb]>> ELSE <<>>)
        \o (IF Truthy(imp)
            THEN <<[speaker |-> "] Assistant: ", content |-> <<"Improved: ">> \o imp]>>
            ELSE <<>>)

(* "\n".join of the lines "[timestamp] speaker: content" of a window *)
RECURSIVE chunk_text(_, _)
chunk_text(window, ts) ==
    IF window = <<>> THEN <<>>
    ELSE <<"[", ToString(ts), window[1].speaker>> \o window[1].content
            \o (IF Len(window) > 1 THEN <<NL>> \o chunk_text(Tail(window), ts) ELSE <<>>)

(* _chunk_conversation with max_turns = 4, overlap_turns = 2: the windows
   messages[i:i+4] for i in range(0, len(messages), 2) *)
chunk_conversation(q, response, ts, fb, imp) ==
    LET messages == chunk_messages(q, response, fb, imp)
        starts == SelectSeq(<<1, 3>>, LAMBDA i : i <= Len(messages))
    IN [c \in 1..Len(starts) |->
           chunk_text(SubSeq(messages, starts[c], Min(starts[c] + 3, Len(messages))), ts)]

(* sap_chat_system_updated.store_conversation_in_chromadb *)
store_conversation_in_chromadb_updated(index, ts, u, q, a, rating, fb, imp) ==
    LET chunks == chunk_conversation(q, a, ts, fb, imp)
    IN index \o [c \in 1..Len(chunks) |->
                    index_entry(ChromaId(Len(index) + c), collection_updated, u, ts,
                                chunks[c], rating, fb, imp)]

(* the where clause left out: the entries of the whole collection *)
AllEntries(index, coll, u) == {i \in 1..Len(index) : index[i].coll = coll}

(* positions of the entries collection.get(where={"user_id": u}) returns *)
UserEntries(index, coll, u) ==
    {i \in 1..Len(index) : index[i].coll = coll /\ index[i].user_id = u}

(* collection.query(n_results=n, where={"user_id": u}): the n nearest
   entries of the user in some order; the embedding decides which *)
QueryResults(index, coll, u, n) ==
    LET S == UserEntries(index, coll, u)
        m == Min(n, Cardinality(S))
    IN {r \in [1..m -> S] : \A i, j \in 1..m : i # j => r[i] # r[j]}

----------------------------------------------------------------------------
(* Exemplar retrieval *)

(* line.split(tok)[-1] *)
AfterLast(line, tok) == Last(Split(line, tok))

(* the loop over the lines assigns a field at every line that passes its
   test: the last of these positions decides, 0 if there is none *)
LastOf(hits) == IF hits = {} THEN 0 ELSE CHOOSE i \in hits : \A j \in hits : j <= i

(* sap_chat_system_fixed: a query result converted back to a conversation;
   i is the 0-based position in the query result *)
conversation_fixed(entry, i) ==
    LET lines == Split(entry.doc, NL)
    IN [conversation_id |-> <<"conv_", i>>,
        question |-> Remove(lines[1], "Q: "),
        response |-> IF Len(lines) > 1 THEN Remove(lines[2], "A: ") ELSE <<>>,
        rating |-> entry.rating,
        feedback |->
            LET f == LastOf({j \in 3..Len(lines) : StartsWith(lines[j], "Feedback: ")})
            IN IF f = 0 THEN None ELSE Remove(lines[f], "Feedback: "),
        improved_response |->
            LET m == LastOf({j \in 3..Len(lines) :
                               /\ ~StartsWith(lines[j], "Feedback: ")
                               /\ StartsWith(lines[j], "Improved: ")})
            IN IF m = 0 THEN None ELSE Remove(lines[m], "Improved: "),
        timestamp |-> entry.timestamp]

(* sap_chat_system_fixed: the bad example built by the full scan *)
bad_conversation_fixed(entry) ==
    LET lines == Split(entry.doc, NL)
    IN [conversation_id |-> entry.id,
        question |-> Remove(lines[1], "Q: "),
        response |-> IF Len(lines) > 1 THEN Remove(lines[2], "A: ") ELSE <<>>,
        rating |-> entry.rating,
        feedback |-> None,
        improved_response |-> None,
        timestamp |-> entry.timestamp]

(* no full scan *)
no_fallback(index, u) == <<>>

(* sap_chat_system_fixed: the full scan of the user's entries, run when the
   similarity results hold no bad example *)
fallback_bad_fixed(index, u) ==
    LET S == {i \in UserEntries(index, collection_fixed(u), u) :
                 index[i].rating # NoRating /\ index[i].rating <= 2}
    IN IF S = {} THEN <<>>
       ELSE <<bad_conversation_fixed(index[CHOOSE i \in S : \A j \in S : i <= j])>>

(* sap_chat_system_fixed.find_similar_conversations_with_feedback, given
   the positions the similarity query returned *)
find_similar_conversations_with_feedback(index, u, results) ==
    IF results = <<>> THEN <<>>
    ELSE
      LET similar == SortByRatingDesc(
                        [i \in 1..Len(results) |-> conversation_fixed(index[results[i]], i - 1)])
          good_examples == SelectSeq(similar, LAMBDA c : c.rating # NoRating /\ c.rating >= 4)
          bad_examples == SelectSeq(similar, LAMBDA c : c.rating # NoRating /\ c.rating <= 2)
      IN (IF good_examples # <<>> THEN <<good_examples[1]>> ELSE <<>>)
          \o (IF bad_examples # <<>> THEN <<bad_examples[1]>> ELSE <<>>)
          \o (IF bad_examples = <<>> THEN fallback_bad_fixed(index, u) ELSE <<>>)

(* n_results of the two implementations *)
n_results_fixed(top_k) == Min(top_k * 3, 15)

n_results_updated(top_k) == Min(top_k * 2, 10)

(* the tests of the line loop of sap_chat_system_updated *)
IsUserLine(l) ==
    (Contains(l, "] User: ") /\ ~StartsWith(l, "[")) \/ Contains(l, "Feedback: ")

IsAssistantLine(l) == ~IsUserLine(l) /\ Contains(l, "] Assistant: ")

(* sap_chat_system_updated: a query result converted back to a conversation *)
conversation_updated(entry) ==
    LET lines == Split(entry.doc, NL)
        q == LastOf({j \in 1..Len(lines) :
                        IsUserLine(lines[j]) /\ ~Contains(lines[j], "Feedback: ")})
        r == LastOf({j \in 1..Len(lines) :
                        IsAssistantLine(lines[j]) /\ ~Contains(lines[j], "Improved: ")})
        f == LastOf({j \in 1..Len(lines) :
                        IsUserLine(lines[j]) /\ Contains(lines[j], "Feedback: ")})
        m == LastOf({j \in 1..Len(lines) :
                        IsAssistantLine(lines[j]) /\ Contains(lines[j], "Improved: ")})
    IN [question |-> IF q = 0 THEN <<>> ELSE AfterLast(lines[q], "] User: "),
        response |-> IF r = 0 THEN <<>> ELSE AfterLast(lines[r], "] Assistant: "),
        rating |-> entry.rating,
        feedback |-> IF f = 0 THEN None ELSE AfterLast(lines[f], "Feedback: "),
        improved_response |-> IF m = 0 THEN None ELSE AfterLast(lines[m], "Improved: "),
        timestamp |-> entry.timestamp]

(* sap_chat_system_updated.find_similar_conversations, given the positions
   the similarity query returned *)
find_similar_conversations(index, u, results) ==
    IF results = <<>> THEN <<>>
    ELSE
      LET similar == SortByRatingDesc(
                        [i \in 1..Len(results) |-> conversation_updated(index[results[i]])])
          good_examples == SelectSeq(similar, LAMBDA c : c.rating # NoRating /\ c.rating >= 4)
          bad_examples == SelectSeq(similar, LAMBDA c : c.rating # NoRating /\ c.rating <= 3)
      IN (IF good_examples # <<>> THEN <<good_examples[1]>> ELSE <<>>)
          \o (IF bad_examples # <<>> THEN <<bad_examples[1]>> ELSE <<>>)

----------------------------------------------------------------------------
(* Construction of a SAPChatSystem *)

(* sap_chat_system_fixed._load_recent_conversations_from_json, first half:
   every rated conversation of the user whose conversation_id is not an id
   of the collection is stored in ChromaDB *)
RECURSIVE migrate(_, _, _, _, _)
migrate(index, convs, ids, ts, u) ==
    IF convs = <<>> THEN index
    ELSE LET conv == convs[1]
         IN IF conv.rating # NoRating /\ conv.conversation_id \notin ids
            THEN migrate(store_conversation_in_chromadb_fixed(index, ts, u,
                            conv.question, conv.response, conv.rating,
                            conv.feedback, conv.improved_response),
                         Tail(convs), ids, ts, u)
            ELSE migrate(index, Tail(convs), ids, ts, u)

(* existing_ids of _load_recent_conversations_from_json *)
existing_ids(index, u) ==
    {index[i].id : i \in {j \in 1..Len(index) : index[j].coll = collection_fixed(u)}}

----------------------------------------------------------------------------
(* The hot tier of EnhancedChatManager *)

(* the metadata create_new_conversation stores in the "conversations" collection *)
conversation_metadata(id, s, u, ts) ==
    [id |-> id, session_id |-> s, user_id |-> u, title |-> "Analysis Session Chat",
     created_at |-> ts, message_count |-> 0, archived |-> FALSE]

(* conversation_data of create_new_conversation *)
conversation_data(id, s, u, ts) ==
    [conversation_id |-> id, session_id |-> s, user_id |-> u,
     title |-> "Analysis Session Chat", created_at |-> ts, messages |-> <<>>]

(* create_new_conversation: the oldest leaves a full deque, then the append *)
recent_append(recent_convs, conv) ==
    IF Len(recent_convs) = max_recent_conversations
    THEN Append(Tail(recent_convs), conv)
    ELSE Append(recent_convs, conv)

(* the store of the manager: the keys and deques of recent_conversations and
   the two collections *)
ManagerState ==
    [keys |-> present, recent |-> recent_conversations,
     convs |-> conversations_collection, msgs |-> messages_collection]

(* create_new_conversation on a store that answers *)
create_new_conversation(st, s, u, ts) ==
    LET conversation_id == Uuid(Len(st.convs) + 1)
    IN [keys |-> st.keys \cup {u},
        recent |-> [st.recent EXCEPT
                       ![u] = recent_append(@, conversation_data(conversation_id, s, u, ts))],
        convs |-> Append(st.convs, conversation_metadata(conversation_id, s, u, ts)),
        msgs |-> st.msgs]

(* the place of the conversation in recent memory: <<user, index>>, <<>> if
   it is in nobody's deque *)
recent_place(st, cid) ==
    LET places == {pl \in Users \X (1..max_recent_conversations) :
                      /\ pl[2] <= Len(st.recent[pl[1]])
                      /\ st.recent[pl[1]][pl[2]].conversation_id = cid}
    IN IF places = {} THEN <<>> ELSE CHOOSE pl \in places : TRUE

(* the message id append_message returns *)
MessageId(ts) == <<"message", ts>>

(* append_message on a store that answers *)
append_message(st, cid, q, a, ts) ==
    LET pl == recent_place(st, cid)
    IN IF pl # <<>>
       THEN LET messages == Append(st.recent[pl[1]][pl[2]].messages, <<q, a>>)
            IN [st EXCEPT
                   !.recent[pl[1]][pl[2]].messages = messages,
                   !.convs = [j \in 1..Len(st.convs) |->
                                 IF st.convs[j].id = cid
                                 THEN [st.convs[j] EXCEPT !.message_count = Len(messages)]
                                 ELSE st.convs[j]]]
       ELSE [st EXCEPT
                !.msgs = Append(@, [id |-> MessageId(ts), conversation_id |-> cid,
                                    user_message |-> q, bot_response |-> a,
                                    timestamp |-> ts])]

(* conversation_id: str = None *)
NoId == <<>>

(* get_messages_from_vector_db(conversation_id, limit): the first limit
   entries the filter lets through, sorted by timestamp, as turns.  The filter
   is the conversation id, or the empty filter {} for no id; answers says
   whether messages_collection.get answers the call: what it raises is caught
   and gives [] *)
get_messages_from_vector_db(msgs, cid, limit, answers) ==
    LET metadatas == IF cid # NoId
                     THEN SelectSeq(msgs, LAMBDA e : e.conversation_id = cid)
                     ELSE msgs
        sorted_metadata == SortByTimestamp(SubSeq(metadatas, 1, Min(limit, Len(metadatas))))
    IN IF answers
       THEN [i \in 1..Len(sorted_metadata) |->
                <<sorted_metadata[i].user_message, sorted_metadata[i].bot_response>>]
       ELSE <<>>

(* conv['messages'][-3:] of each conversation of the list, flattened *)
RECURSIVE last_messages(_)
last_messages(convs) ==
    IF convs = <<>> THEN <<>>
    ELSE LastN(Head(convs).messages, 3) \o last_messages(Tail(convs))

(* the vector DB is searched whatever the context holds *)
always_padded(context_messages) == TRUE

(* if len(context_messages) < 5 *)
needs_padding(context_messages) == Len(context_messages) < 5

(* get_conversation_context *)
get_conversation_context(st, u, cid, answers) ==
    LET recent_convs == st.recent[u]
        found == {i \in 1..Len(recent_convs) :
                     cid # NoId /\ recent_convs[i].conversation_id = cid}
        context_messages == last_messages(LastN(recent_convs, 2))
        vector_messages == get_messages_from_vector_db(st.msgs, cid, 5, answers)
    IN IF found # {}
       THEN LastN(recent_convs[CHOOSE i \in found : \A j \in found : i <= j].messages, 10)
       ELSE IF needs_padding(context_messages)
       THEN LastN(context_messages \o vector_messages, 10)
       ELSE LastN(context_messages, 10)

(* how a call of the manager ends: it returns an id or a list of turns, or
   it raises *)

NoCall == [outcome |-> "none", id |-> NoId, turns |-> <<>>]

Returns(id, turns) == [outcome |-> "return", id |-> id, turns |-> turns]

Raises == [outcome |-> "raise", id |-> NoId, turns |-> <<>>]

(* ids of the "conversations" collection *)
ConversationIds == {conversations_collection[i].id : i \in 1..Len(conversations_collection)}

(* append_message: the conversation is in somebody's recent memory *)
InRecentMemory(cid) ==
    \E u \in Users : \E i \in 1..Len(recent_conversations[u]) :
        recent_conversations[u][i].conversation_id = cid

----------------------------------------------------------------------------
(* backend/services.py: parse_json_response *)

Quote == "\""

(* whitespace json.loads and the \s of the regular expression skip *)
Whitespace == {" ", NL}

Digits == {"1"}

(* JSON values: t is "object", "string" or "number"; s the characters of a
   string or number; kids the members of an object, in the order of dict *)
Str(chars) == [t |-> "string", s |-> chars, kids |-> <<>>]

Num(chars) == [t |-> "number", s |-> chars, kids |-> <<>>]

Obj(members) == [t |-> "object", s |-> <<>>, kids |-> members]

NoValue == [t |-> "none", s |-> <<>>, kids |-> <<>>]

(* dict[key] = val: a key already there keeps its place and takes the value *)
Put(members, key, val) ==
    IF \E i \in 1..Len(members) : members[i].key = key
    THEN [i \in 1..Len(members) |->
             IF members[i].key = key THEN [key |-> key, val |-> val] ELSE members[i]]
    ELSE Append(members, [key |-> key, val |-> val])

RECURSIVE SkipWs(_, _)
SkipWs(t, i) == IF i <= Len(t) /\ t[i] \in Whitespace THEN SkipWs(t, i + 1) ELSE i

(* the decoder: ok, the value, and the position after it *)
Failure == [ok |-> FALSE, val |-> NoValue, pos |-> 0]

Decoded(v, p) == [ok |-> TRUE, val |-> v, pos |-> p]

(* a string starts at t[i]: up to the next quote, no line break inside *)
ParseString(t, i) ==
    LET ends == {j \in (i + 1)..Len(t) : t[j] = Quote}
    IN IF ends = {} THEN Failure
       ELSE LET j == CHOOSE e \in ends : \A f \in ends : e <= f
            IN IF \E k \in (i + 1)..(j - 1) : t[k] = NL THEN Failure
               ELSE Decoded(Str(SubSeq(t, i + 1, j - 1)), j + 1)

RECURSIVE DigitsEnd(_, _)
DigitsEnd(t, i) == IF i <= Len(t) /\ t[i] \in Digits THEN DigitsEnd(t, i + 1) ELSE i

ParseNumber(t, i) == Decoded(Num(SubSeq(t, i, DigitsEnd(t, i) - 1)), DigitsEnd(t, i))

RECURSIVE ParseValue(_, _)
RECURSIVE ParseMembers(_, _, _)
(* json.scanner scan_once *)
ParseValue(t, i) ==
    IF i > Len(t) THEN Failure
    ELSE IF t[i] = Quote THEN ParseString(t, i)
    ELSE IF t[i] \in Digits THEN ParseNumber(t, i)
    ELSE IF t[i] = "{"
    THEN LET j == SkipWs(t, i + 1)
         IN IF j <= Len(t) /\ t[j] = "}" THEN Decoded(Obj(<<>>), j + 1)
            ELSE ParseMembers(t, j, <<>>)
    ELSE Failure

(* json.decoder JSONObject: the members from the key at t[i] on *)
ParseMembers(t, i, members) ==
    IF i > Len(t) \/ t[i] # Quote THEN Failure
    ELSE LET k == ParseString(t, i)
         IN IF ~k.ok THEN Failure
            ELSE LET c == SkipWs(t, k.pos)
                 IN IF c > Len(t) \/ t[c] # ":" THEN Failure
                    ELSE LET v == ParseValue(t, SkipWs(t, c + 1))
                         IN IF ~v.ok THEN Failure
                            ELSE LET e == SkipWs(t, v.pos)
                                     now == Put(members, k.val.s, v.val)
                                 IN IF e > Len(t) THEN Failure
                                    ELSE IF t[e] = "}" THEN Decoded(Obj(now), e + 1)
                                    ELSE IF t[e] = ","
                                    THEN ParseMembers(t, SkipWs(t, e + 1), now)
                                    ELSE Failure

(* json.loads: ok is FALSE where it raises JSONDecodeError *)
json_loads(t) ==
    LET r == ParseValue(t, SkipWs(t, 1))
    IN IF r.ok /\ SkipWs(t, r.pos) > Len(t)
       THEN [ok |-> TRUE, val |-> r.val]
       ELSE [ok |-> FALSE, val |-> NoValue]

(* json.dumps *)
RECURSIVE Serialize(_)
RECURSIVE SerializeMembers(_)
Serialize(x) ==
    IF x.t = "string" THEN <<Quote>> \o x.s \o <<Quote>>
    ELSE IF x.t = "number" THEN x.s
    ELSE <<"{">> \o SerializeMembers(x.kids) \o <<"}">>

SerializeMembers(members) ==
    IF members = <<>> THEN <<>>
    ELSE <<Quote>> \o members[1].key \o <<Quote, ":", " ">> \o Serialize(members[1].val)
            \o (IF Len(members) > 1
                THEN <<",", " ">> \o SerializeMembers(Tail(members)) ELSE <<>>)

(* the ends e of group 1 of the regular expression when it starts at b: a
   closing brace followed by whitespace and a fence *)
GroupEnds(t, b) ==
    {e \in (b + 1)..Len(t) :
        /\ t[e] = "}"
        /\ SkipWs(t, e + 1) <= Len(t)
        /\ t[SkipWs(t, e + 1)] = Fence}

(* the positions where the regular expression matches: a fence, json,
   whitespace, an opening brace, anything, a closing brace, whitespace, a
   fence *)
FenceStarts(t) ==
    {p \in 1..(Len(t) - 1) :
        /\ t[p] = Fence
        /\ t[p + 1] = "json"
        /\ SkipWs(t, p + 2) <= Len(t)
        /\ t[SkipWs(t, p + 2)] = "{"
        /\ GroupEnds(t, SkipWs(t, p + 2)) # {}}

(* json_match.group(1): re.search takes the leftmost match and .* the
   longest *)
json_match_group(t) ==
    LET p == CHOOSE q \in FenceStarts(t) : \A r \in FenceStarts(t) : q <= r
        b == SkipWs(t, p + 2)
        e == CHOOSE f \in GroupEnds(t, b) : \A g \in GroupEnds(t, b) : g <= f
    IN SubSeq(t, b, e)

(* response_content.find('{'): 0 for -1 *)
FindBrace(t) ==
    LET opens == {i \in 1..Len(t) : t[i] = "{"}
    IN IF opens = {} THEN 0 ELSE CHOOSE i \in opens : \A j \in opens : i <= j

(* the loop over response_content[start:]: the position where brace_count
   comes back to 0, 0 if it never does *)
RECURSIVE BraceEnd(_, _, _)
BraceEnd(t, i, brace_count) ==
    IF i > Len(t) THEN 0
    ELSE IF t[i] = "{" THEN BraceEnd(t, i + 1, brace_count + 1)
    ELSE IF t[i] = "}"
    THEN IF brace_count - 1 = 0 THEN i ELSE BraceEnd(t, i + 1, brace_count - 1)
    ELSE BraceEnd(t, i + 1, brace_count)

(* how a block of code ends *)
Return(v) == [outcome |-> "return", val |-> v]

Raise == [outcome |-> "raise", val |-> NoValue]

FallThrough == [outcome |-> "none", val |-> NoValue]

Pending == [outcome |-> "pending", val |-> NoValue]

Loaded(r) == IF r.ok THEN Return(r.val) ELSE Raise

(* the body of the inner try *)
extract_json(t) ==
    IF FenceStarts(t) # {} THEN Loaded(json_loads(json_match_group(t)))
    ELSE IF FindBrace(t) # 0
    THEN LET start == FindBrace(t)
             i == BraceEnd(t, start, 0)
         IN IF i # 0 THEN Loaded(json_loads(SubSeq(t, start, i))) ELSE FallThrough
    ELSE FallThrough

(* {"error": "Failed to parse JSON: Could not extract valid JSON from response"} *)
ErrorDict ==
    Obj(<<[key |-> <<"error">>,
           val |-> Str(<<"Failed to parse JSON: Could not extract valid JSON from response">>)]>>)

(* the inner try without its except clause *)
parse_json_response_uncaught(t) ==
    IF json_loads(t).ok THEN Return(json_loads(t).val)
    ELSE IF extract_json(t).outcome = "none" THEN Return(ErrorDict)
    ELSE extract_json(t)

parse_json_response(t) ==
    IF json_loads(t).ok THEN Return(json_loads(t).val)
    ELSE IF extract_json(t).outcome = "return" THEN extract_json(t)
    ELSE Return(ErrorDict)

----------------------------------------------------------------------------
(* The calls *)

(* what the last feedback call did: invoked: it called llm.invoke;
   improved: the improved response it returned *)
Call(invoked, improved) == [invoked |-> invoked, improved |-> improved]

(* llm.invoke(prompt).content *)
llm_invoke == IF env.llm = "up" THEN LLMOutputs ELSE LLMErrors

(* save_unified_chat_data / save_chat_data: the file becomes data, or the
   exception of a failed write is printed and the file stays as it is *)
save_chat_data(data) == IF env.archive = "up" THEN data ELSE conversations

(* a handler that is not in create_new_conversation *)
NoRequest == [s |-> "none", u |-> "none", conv |-> <<>>, bound |-> TRUE, items |-> <<>>]

Impls == {"updated", "fixed"}

Start ==
    /\ conversations = <<>>
    /\ conversation_history = [u \in Users |-> <<>>]
    /\ chroma = <<>>
    /\ clock = 1
    /\ lastCall = Call(FALSE, None)
    /\ recent_conversations = [u \in Users |-> <<>>]
    /\ conversations_collection = <<>>
    /\ messages_collection = <<>>
    /\ present = {}
    /\ ret = NoCall
    /\ pc = [h \in Handlers |-> "idle"]
    /\ req = [h \in Handlers |-> NoRequest]
    /\ running = "none"
    /\ env = AllUp
    /\ result = Pending

Init ==
    /\ impl \in Impls
    /\ raw = <<>>
    /\ bound = [calls |-> MaxCalls, records |-> MaxRecords, index |-> MaxIndex, messages |-> 0]
    /\ script = <<>>
    /\ Start

(* datetime.utcnow() is later at every call *)
Tick == clock' = clock + 1

(* sap_chat_system_fixed.get_response: the answer a of the generator is
   pushed onto the deque and appended to the JSON archive *)
GetResponseFixed(u, q, a) ==
    /\ impl = "fixed"
    /\ clock <= bound.calls
    /\ UNCHANGED <<managerVars, parserVars>>
    /\ Len(conversations) < bound.records
    /\ conversation_history' =
           [conversation_history EXCEPT ![u] = deque_append(@, history_entry(q, a, clock))]
    /\ conversations' = save_chat_data(add_conversation(conversations, u, clock, q, a, NoRating, None, None))
    /\ Tick
    /\ UNCHANGED <<impl, bound, env, chroma, lastCall>>

(* sap_chat_system_fixed.process_feedback_and_improve *)
ProcessFeedbackFixed(u, q, a, rating, fb) ==
    /\ impl = "fixed"
    /\ clock <= bound.calls
    /\ UNCHANGED <<managerVars, parserVars>>
    /\ Len(chroma) < bound.index
    /\ MatchIndex(conversations, u, q, a) = 0 => Len(conversations) < bound.records
    /\ \E content \in IF should_improve_fixed(rating, fb) THEN llm_invoke ELSE {None} :
         LET invoked == should_improve_fixed(rating, fb)
             improved_response == IF invoked THEN sanitize(content) ELSE None
         IN /\ conversation_history' =
                   [conversation_history EXCEPT ![u] = improve_history(@, q, improved_response)]
            /\ conversations' =
                   save_chat_data(update_conversation_with_feedback_fixed(conversations,
                       clock, u, q, a, rating, fb, improved_response))
            /\ chroma' =
                   store_conversation_in_chromadb_fixed(chroma, clock, u, q, a, rating, fb,
                       improved_response)
            /\ lastCall' = Call(invoked, improved_response)
    /\ Tick
    /\ UNCHANGED <<impl, bound, env>>

(* sap_chat_system_fixed.add_user_feedback *)
AddUserFeedbackFixed(u, q, a, rating, fb, corrected) ==
    /\ impl = "fixed"
    /\ clock <= bound.calls
    /\ UNCHANGED <<managerVars, parserVars>>
    /\ MatchIndex(conversations, u, q, a) = 0 => Len(conversations) < bound.records
    /\ conversations' =
           save_chat_data(update_conversation_with_feedback_fixed(conversations, clock, u,
               q, a, rating, fb, corrected))
    /\ lastCall' = Call(FALSE, None)
    /\ Tick
    /\ UNCHANGED <<impl, bound, env, conversation_history, chroma>>

(* sap_chat_system_fixed.create_chat_session: SAPChatSystem.__init__ *)
CreateChatSessionFixed(u) ==
    /\ impl = "fixed"
    /\ clock <= bound.calls
    /\ UNCHANGED <<managerVars, parserVars>>
    /\ LET index == migrate(chroma, UserConversations(conversations, u),
                            existing_ids(chroma, u), clock, u)
       IN /\ Len(index) <= bound.index
          /\ chroma' = index
    /\ conversation_history' =
           [conversation_history EXCEPT ![u] = load_recent(conversations, u)]
    /\ Tick
    /\ UNCHANGED <<impl, bound, env, conversations, lastCall>>

(* backend/app.py chat: a SAPChatSystem is constructed for the user and the
   turn is appended to the JSON archive *)
ChatUpdated(u, q, a) ==
    /\ impl = "updated"
    /\ clock <= bound.calls
    /\ UNCHANGED <<managerVars, parserVars>>
    /\ Len(conversations) < bound.records
    /\ conversation_history' =
           [conversation_history EXCEPT ![u] = load_recent(conversations, u)]
    /\ conversations' = save_chat_data(add_conversation(conversations, u, clock, q, a, NoRating, None, None))
    /\ Tick
    /\ UNCHANGED <<impl, bound, env, chroma, lastCall>>

(* backend/app.py update_feedback: a SAPChatSystem is constructed for the
   user and sap_chat_system_updated.process_feedback_and_improve runs on it *)
UpdateFeedbackUpdated(u, q, a, rating, fb) ==
    /\ impl = "updated"
    /\ clock <= bound.calls
    /\ UNCHANGED <<managerVars, parserVars>>
    /\ \E content \in IF should_improve_updated(rating, fb) THEN llm_invoke ELSE {None} :
         LET invoked == should_improve_updated(rating, fb)
             improved_response == IF invoked THEN sanitize(content) ELSE None
             index == store_conversation_in_chromadb_updated(chroma, clock, u, q, a,
                          rating, fb, improved_response)
         IN /\ Len(index) <= bound.index
            /\ conversation_history' =
                   [conversation_history EXCEPT
                       ![u] = improve_history(load_recent(conversations, u), q,
                                              improved_response)]
            /\ conversations' =
                   save_chat_data(update_conversation_with_feedback_updated(conversations,
                       u, q, a, rating, fb, improved_response))
            /\ chroma' = index
            /\ lastCall' = Call(invoked, improved_response)
    /\ Tick
    /\ UNCHANGED <<impl, bound, env>>

(* sap_chat_system_updated.add_user_feedback *)
AddUserFeedbackUpdated(u, q, a, rating, fb, corrected) ==
    /\ impl = "updated"
    /\ clock <= bound.calls
    /\ UNCHANGED <<managerVars, parserVars>>
    /\ conversations' =
           save_chat_data(update_conversation_with_feedback_updated(conversations, u, q, a,
               rating, fb, corrected))
    /\ lastCall' = Call(FALSE, None)
    /\ Tick
    /\ UNCHANGED <<impl, bound, env, conversation_history, chroma>>

(* sap_chat_system_updated.create_chat_session: SAPChatSystem.__init__ *)
CreateChatSessionUpdated(u) ==
    /\ impl = "updated"
    /\ clock <= bound.calls
    /\ UNCHANGED <<managerVars, parserVars>>
    /\ conversation_history' =
           [conversation_history EXCEPT ![u] = load_recent(conversations, u)]
    /\ Tick
    /\ UNCHANGED <<impl, bound, env, conversations, chroma, lastCall>>

vars == <<impl, bound, env, clock, sapVars, managerVars, parserVars>>

Next ==
    \/ \E u \in Users, q \in Questions, a \in Answers : GetResponseFixed(u, q, a)
    \/ \E u \in Users, q \in Questions, a \in Answers, rating \in Ratings, fb \in Feedbacks :
          ProcessFeedbackFixed(u, q, a, rating, fb)
    \/ \E u \in Users, q \in Questions, a \in Answers, rating \in Ratings, fb \in Feedbacks,
          corrected \in Corrected : AddUserFeedbackFixed(u, q, a, rating, fb, corrected)
    \/ \E u \in Users : CreateChatSessionFixed(u)
    \/ \E u \in Users, q \in Questions, a \in Answers : ChatUpdated(u, q, a)
    \/ \E u \in Users, q \in Questions, a \in Answers, rating \in Ratings, fb \in Feedbacks :
          UpdateFeedbackUpdated(u, q, a, rating, fb)
    \/ \E u \in Users, q \in Questions, a \in Answers, rating \in Ratings, fb \in Feedbacks,
          corrected \in Corrected : AddUserFeedbackUpdated(u, q, a, rating, fb, corrected)
    \/ \E u \in Users : CreateChatSessionUpdated(u)

Spec == Init /\ [][Next]_vars

----------------------------------------------------------------------------
(* The hot tier alone: behaviours of appends, long enough to fill the deque
   and evict from it *)

(* sap_chat_system_updated.add_to_conversation *)
AddToConversationUpdated(u, q, a) ==
    /\ impl = "updated"
    /\ clock <= bound.calls
    /\ conversation_history' =
           [conversation_history EXCEPT ![u] = deque_append(@, history_entry(q, a, clock))]
    /\ Tick
    /\ UNCHANGED <<impl, bound, env, conversations, chroma, lastCall, managerVars, parserVars>>

(* the store after the call is st *)
StoreBecomes(st) ==
    /\ present' = st.keys
    /\ recent_conversations' = st.recent
    /\ conversations_collection' = st.convs
    /\ messages_collection' = st.msgs

(* EnhancedChatManager.create_new_conversation, run by a handler the event
   loop does not interrupt: conversations_collection.add comes first, and
   what it raises leaves the call before the deque is touched *)
CreateNewConversation(s, u) ==
    /\ impl = "manager"
    /\ clock <= bound.calls
    /\ running = "none"
    /\ IF env.chroma = "up"
       THEN /\ StoreBecomes(create_new_conversation(ManagerState, s, u, clock))
            /\ ret' = Returns(Uuid(Len(conversations_collection) + 1), <<>>)
       ELSE /\ ret' = Raises
            /\ UNCHANGED storeVars
    /\ Tick
    /\ UNCHANGED <<impl, bound, env, sapVars, handlerVars, script, parserVars>>

(* EnhancedChatManager.append_message: for a conversation in recent memory
   the failure of conversations_collection.update is printed; for any other,
   what messages_collection.add raises leaves the call *)
AppendMessage(cid, q, a) ==
    /\ impl = "manager"
    /\ clock <= bound.calls
    /\ running = "none"
    /\ LET st == append_message(ManagerState, cid, q, a, clock)
       IN IF InRecentMemory(cid)
          THEN /\ \E u \in Users : \E i \in 1..Len(recent_conversations[u]) :
                    /\ recent_conversations[u][i].conversation_id = cid
                    /\ Len(recent_conversations[u][i].messages) < bound.messages
               /\ IF env.chroma = "up"
                  THEN StoreBecomes(st)
                  ELSE StoreBecomes([ManagerState EXCEPT !.recent = st.recent])
               /\ ret' = Returns(MessageId(clock), <<>>)
          ELSE /\ Len(messages_collection) < bound.messages
               /\ IF env.chroma = "up"
                  THEN /\ StoreBecomes(st)
                       /\ ret' = Returns(MessageId(clock), <<>>)
                  ELSE /\ ret' = Raises
                       /\ UNCHANGED storeVars
    /\ Tick
    /\ UNCHANGED <<impl, bound, env, sapVars, handlerVars, script, parserVars>>

(* EnhancedChatManager.add_message: a new conversation and the turn in it;
   whatever is raised is printed and a fresh id is returned *)
AddMessage(u, s, q, a) ==
    /\ impl = "manager"
    /\ clock <= bound.calls
    /\ running = "none"
    /\ IF env.chroma = "up"
       THEN LET created == create_new_conversation(ManagerState, s, u, clock)
                conversation_id == Uuid(Len(conversations_collection) + 1)
            IN StoreBecomes(append_message(created, conversation_id, q, a, clock))
       ELSE UNCHANGED storeVars
    /\ ret' = Returns(MessageId(clock), <<>>)
    /\ Tick
    /\ UNCHANGED <<impl, bound, env, sapVars, handlerVars, script, parserVars>>

HotImpls == {"manager", "updated"}

InitHot ==
    /\ impl \in HotImpls
    /\ raw = <<>>
    /\ bound = [calls |-> MaxAppends, records |-> 0, index |-> 0, messages |-> MaxMessages]
    /\ script = <<>>
    /\ Start

NextHot ==
    \/ \E u \in Users, q \in Questions, a \in Answers : AddToConversationUpdated(u, q, a)
    \/ \E s \in Sessions, u \in Users : CreateNewConversation(s, u)
    \/ \E cid \in ConversationIds, q \in Questions, a \in Answers : AppendMessage(cid, q, a)

SpecHot == InitHot /\ [][NextHot]_vars

----------------------------------------------------------------------------
(* FIFO bound of the hot tier *)

(* the ids of the conversations a user created, in the order of creation *)
CreatedBy(collection, u) ==
    LET mine == SelectSeq(collection, LAMBDA c : c.user_id = u)
    IN [i \in 1..Len(mine) |-> mine[i].id]

HotIds(recent_convs) == [i \in 1..Len(recent_convs) |-> recent_convs[i].conversation_id]

(* C1: for every sequence of appends of one user the hot tier never holds
   more than K = 3 records, the newest hot entry after an append is the record
   just appended, and the hot tier holds the last min(K, N) appended records
   in append order.  For SAPChatSystem: add_to_conversation leaves the deque
   as the last three of the old deque followed by the new entry.  For
   EnhancedChatManager: after every call the deque of each user holds the
   last three conversations the user created, oldest first. *)
C1_HotTierFifoBound ==
    [][/\ \A u \in Users, q \in Questions, a \in Answers :
             AddToConversationUpdated(u, q, a) =>
                 LET entry == history_entry(q, a, clock)
                     after == conversation_history'[u]
                 IN /\ Len(after) <= 3
                    /\ after[Len(after)] = entry
                    /\ after = LastN(Append(conversation_history[u], entry), 3)
                    /\ \A v \in Users \ {u} :
                           conversation_history'[v] = conversation_history[v]
       /\ \A s \in Sessions, u \in Users :
             CreateNewConversation(s, u) =>
                 LET after == recent_conversations'[u]
                 IN /\ after[Len(after)].conversation_id =
                           Uuid(Len(conversations_collection'))
                    /\ after[Len(after)].user_id = u
       /\ \A u \in Users :
             /\ Len(recent_conversations'[u]) <= 3
             /\ HotIds(recent_conversations'[u]) =
                    LastN(CreatedBy(conversations_collection', u), 3)
      ]_vars

(* four appends of u1 at times 1..4: the deque holds the second, third and
   fourth *)
C1_Witness_FourthAppendEvictsFirst ==
    /\ impl = "updated"
    /\ clock = 5
    /\ Len(conversation_history["u1"]) = 3
    /\ conversation_history["u1"][1].timestamp = 2
    /\ conversation_history["u1"][2].timestamp = 3
    /\ conversation_history["u1"][3].timestamp = 4

----------------------------------------------------------------------------
(* The feedback workflow *)

(* SubmitFeedback: process_feedback_and_improve of either implementation *)
SubmitFeedback(u, q, a, rating, fb) ==
    \/ ProcessFeedbackFixed(u, q, a, rating, fb)
    \/ UpdateFeedbackUpdated(u, q, a, rating, fb)

(* UpdateWithFeedback called without the workflow: add_user_feedback *)
UpdateWithFeedback(u, q, a, rating, fb) ==
    \E corrected \in Corrected :
        \/ AddUserFeedbackFixed(u, q, a, rating, fb, corrected)
        \/ AddUserFeedbackUpdated(u, q, a, rating, fb, corrected)

(* Append: the turn is written to the archive *)
AppendStep(u, q, a) == GetResponseFixed(u, q, a) \/ ChatUpdated(u, q, a)

(* the archive holds a rated record of the triple and no unrated one *)
AlreadyRated(u, q, a) ==
    /\ MatchIndex(conversations, u, q, a) = 0
    /\ \E i \in 1..Len(conversations) :
          /\ Matches_rated_too(conversations[i], u, q, a)
          /\ conversations[i].rating # NoRating

(* the result the specification names for a feedback call that finds no
   unrated record *)
NotFound == <<"NotFound">>

(* C2: after an Append and a SubmitFeedback of the same user, question and
   answer, a second SubmitFeedback returns NotFound: a SubmitFeedback for a
   triple whose record is already rated returns NotFound and rates nothing. *)
C2_SecondFeedbackReturnsNotFound ==
    [][\A u \in Users, q \in Questions, a \in Answers, rating \in Ratings, fb \in Feedbacks :
          (AlreadyRated(u, q, a) /\ SubmitFeedback(u, q, a, rating, fb)) =>
              /\ lastCall'.improved = NotFound
              /\ conversations' = conversations
      ]_vars

(* C3: UpdateWithFeedback never creates a record: with no unrated record of
   the user whose question and answer equal the arguments, the call leaves the
   archive as it is. *)
C3_UpdateNeverCreates ==
    [][\A u \in Users, q \in Questions, a \in Answers, rating \in Ratings, fb \in Feedbacks :
          (/\ MatchIndex(conversations, u, q, a) = 0
           /\ (SubmitFeedback(u, q, a, rating, fb) \/ UpdateWithFeedback(u, q, a, rating, fb)))
          => conversations' = conversations
      ]_vars

(* C4: RATED is terminal: once the rating of a record is set, no later
   Append, SubmitFeedback or UpdateWithFeedback changes or removes the record:
   its rating, feedback and improved_response stay as they are. *)
C4_RatedIsTerminal ==
    [][\A i \in 1..Len(conversations) :
          conversations[i].rating # NoRating =>
              /\ i <= Len(conversations')
              /\ conversations'[i].rating = conversations[i].rating
              /\ conversations'[i].feedback = conversations[i].feedback
              /\ conversations'[i].improved_response = conversations[i].improved_response
              /\ conversations'[i] = conversations[i]
      ]_vars

(* a second feedback of the same triple has acted: the first record kept its
   rating although the second call carried another one *)
C4_Witness_SecondFeedbackLeftRatedRecord ==
    /\ Len(conversations) = 2
    /\ conversations[1].rating = 2
    /\ conversations[2].rating = 5
    /\ Matches_rated_too(conversations[2], conversations[1].user_id,
                          conversations[1].question, conversations[1].response)

(* the unrated records of a triple *)
UnratedCount(data, u, q, a) ==
    Cardinality({i \in 1..Len(data) :
                    /\ data[i].user_id = u
                    /\ data[i].question = q
                    /\ data[i].response = a
                    /\ data[i].rating = NoRating})

(* C5 as stated: the archive never holds more than one unrated record of a
   (user, question, answer) triple. *)
C5_AtMostOneUnrated ==
    \A u \in Users, q \in Questions, a \in Answers :
        UnratedCount(conversations, u, q, a) <= 1

(* C5 amended: an Append adds exactly one unrated record of its triple,
   whether or not the archive already holds one, and no other call adds an
   unrated record: a feedback call never raises the number of unrated records
   of any triple. *)
C5_OnlyAppendAddsUnrated ==
    [][\A u \in Users, q \in Questions, a \in Answers :
          LET before == UnratedCount(conversations, u, q, a)
              after == UnratedCount(conversations', u, q, a)
          IN /\ AppendStep(u, q, a) => after = before + 1
             /\ ~AppendStep(u, q, a) => after <= before
      ]_vars

(* the triple was appended twice and rated once: one of its two records is
   rated, the other still unrated *)
C5_Witness_TwoAppendsOneRated ==
    /\ Len(conversations) = 2
    /\ Matches_rated_too(conversations[2], conversations[1].user_id,
                          conversations[1].question, conversations[1].response)
    /\ conversations[1].rating = NoRating
    /\ conversations[2].rating # NoRating

(* the archive records a step wrote *)
Written(i) == i > Len(conversations) \/ conversations'[i] # conversations[i]

(* every SubmitFeedback(u, q, a, rating, fb) step stores an index entry of u
   with the rating and the feedback text of the call; the formulas below put
   this first, so that only the calls a step can be an instance of are
   evaluated *)
Stored(u, rating, fb) ==
    /\ Len(chroma') > Len(chroma)
    /\ chroma'[Len(chroma')].user_id = u
    /\ chroma'[Len(chroma')].rating = rating
    /\ chroma'[Len(chroma')].has_feedback = Truthy(fb)

(* C6 as stated: SubmitFeedback invokes the generator exactly when
   rating <= 3 and the feedback text is non-empty. *)
C6_GateIsAtMostThree ==
    [][\A u \in Users, q \in Questions, a \in Answers, rating \in Ratings, fb \in Feedbacks :
          SubmitFeedback(u, q, a, rating, fb) =>
              (lastCall'.invoked <=> (rating <= 3 /\ Truthy(fb)))
      ]_vars

(* C6 amended: SubmitFeedback invokes the generator exactly when the feedback
   text is non-empty and the rating is below the threshold of the
   implementation: rating <= 3 in sap_chat_system_updated, rating <= 4 in
   sap_chat_system_fixed.  In both, rating 5 or an empty feedback text never
   yields an improved answer, neither returned nor written to the archive, and
   rating 1, 2 or 3 with a non-empty feedback text always invokes the
   generator. *)
C6_GatePerImplementation ==
    [][\A u \in Users, q \in Questions, a \in Answers, rating \in Ratings, fb \in Feedbacks :
          /\ (Stored(u, rating, fb) /\ UpdateFeedbackUpdated(u, q, a, rating, fb)) =>
                 (lastCall'.invoked <=> (rating <= 3 /\ fb \notin {None, Empty}))
          /\ (Stored(u, rating, fb) /\ ProcessFeedbackFixed(u, q, a, rating, fb)) =>
                 (lastCall'.invoked <=> (rating <= 4 /\ fb \notin {None, Empty}))
          /\ (Stored(u, rating, fb) /\ SubmitFeedback(u, q, a, rating, fb)) =>
                 /\ (rating = 5 \/ fb \in {None, Empty}) =>
                        /\ ~lastCall'.invoked
                        /\ lastCall'.improved = None
                        /\ \A i \in 1..Len(conversations') :
                               Written(i) => conversations'[i].improved_response = None
                 /\ (rating <= 3 /\ fb \notin {None, Empty}) => lastCall'.invoked
      ]_vars

(* sap_chat_system_fixed rated a record 4 with a feedback text and the
   generator gave it an improved answer *)
C6_Witness_RatingFourImproved ==
    /\ impl = "fixed"
    /\ lastCall.invoked
    /\ \E i \in 1..Len(conversations) :
          /\ conversations[i].rating = 4
          /\ conversations[i].improved_response = <<"imp">>
          /\ lastCall.improved = <<"imp">>

----------------------------------------------------------------------------
(* Exemplar retrieval over the index the feedback calls build: behaviours of
   rated conversations of one question, long enough for a collection to hold
   more entries than a similarity query returns *)

ExemplarRatings == {2, 3, 5}

InitExemplars ==
    /\ impl \in Impls
    /\ raw = <<>>
    /\ bound = [calls |-> MaxRated, records |-> MaxRated, index |-> MaxRated, messages |-> 0]
    /\ script = <<>>
    /\ Start

NextExemplars ==
    \/ \E u \in Users, rating \in ExemplarRatings :
          ProcessFeedbackFixed(u, <<"q1">>, <<"a1">>, rating, <<"fb">>)
    \/ \E u \in Users : AddUserFeedbackFixed(u, <<"q1">>, <<"a1">>, 5, <<"fb">>, None)
    \/ \E u \in Users : CreateChatSessionFixed(u)
    \/ \E u \in Users, rating \in ExemplarRatings :
          UpdateFeedbackUpdated(u, <<"q1">>, <<"a1">>, rating, <<"fb">>)
    \/ \E u \in Users, q \in Questions : ChatUpdated(u, q, <<"a1">>)

SpecExemplars == InitExemplars /\ [][NextExemplars]_vars

(* what FindExemplars may return for user u: one result per ranking the
   similarity query may produce *)
Candidates(index, u, top_k) ==
    IF impl = "fixed"
    THEN QueryResults(index, collection_fixed(u), u, n_results_fixed(top_k))
    ELSE QueryResults(index, collection_updated, u, n_results_updated(top_k))

FindExemplars(index, u, results) ==
    IF impl = "fixed"
    THEN find_similar_conversations_with_feedback(index, u, results)
    ELSE find_similar_conversations(index, u, results)

HasGood(exemplars) ==
    \E i \in 1..Len(exemplars) : exemplars[i].rating >= 4

HasBad(exemplars) ==
    \E i \in 1..Len(exemplars) : exemplars[i].rating \in 1..2

ArchiveHasRated(u, ratings) ==
    \E i \in 1..Len(conversations) :
        conversations[i].user_id = u /\ conversations[i].rating \in ratings

IndexHasRated(index, u, ratings) ==
    \E i \in 1..Len(index) : index[i].user_id = u /\ index[i].rating \in ratings

RankedHasRated(index, results, ratings) ==
    \E i \in 1..Len(results) : index[results[i]].rating \in ratings

(* C7 as stated: if the archive of a user holds a conversation rated >= 4
   and one rated <= 2, FindExemplars returns a good and a bad exemplar,
   whatever the similarity query returns. *)
C7_BothPolarities ==
    \A u \in Users, top_k \in TopKs :
        (ArchiveHasRated(u, 4..5) /\ ArchiveHasRated(u, 1..2)) =>
            \A results \in Candidates(chroma, u, top_k) :
                /\ HasGood(FindExemplars(chroma, u, results))
                /\ HasBad(FindExemplars(chroma, u, results))

(* C7 amended: the good slot has no fallback: FindExemplars returns a good
   exemplar exactly when the similarity results hold an entry rated >= 4.
   sap_chat_system_fixed returns a bad exemplar (rated <= 2) exactly when the
   index collection of the user holds an entry rated <= 2, among the
   similarity results or not; sap_chat_system_updated has no full scan and
   returns a bad exemplar, which it takes to be one rated <= 3, exactly when
   the similarity results hold an entry rated 1..3.  So both slots are filled
   whenever the index of the user holds an entry rated <= 2 and the
   similarity results hold one rated >= 4. *)
C7_PolarityFromIndex ==
    \A u \in Users, top_k \in TopKs :
        \A results \in Candidates(chroma, u, top_k) :
            LET exemplars == FindExemplars(chroma, u, results)
            IN /\ HasGood(exemplars) <=> RankedHasRated(chroma, results, 4..5)
               /\ impl = "fixed" =>
                      (HasBad(exemplars) <=> IndexHasRated(chroma, u, 1..2))
               /\ impl = "updated" =>
                      ((\E i \in 1..Len(exemplars) : exemplars[i].rating \in 1..3)
                          <=> RankedHasRated(chroma, results, 1..3))
               /\ Len(exemplars) <= 2

(* the collection of u1 holds four entries, the only one rated <= 2 came
   last, and a query for three returns the other three: the bad exemplar is
   the one of the full scan *)
C7_Witness_FullScanFindsBad ==
    /\ impl = "fixed"
    /\ Len(chroma) = 4
    /\ \A i \in 1..3 : chroma[i].user_id = "u1" /\ chroma[i].rating = 5
    /\ chroma[4].user_id = "u1" /\ chroma[4].rating = 2
    /\ LET exemplars == find_similar_conversations_with_feedback(chroma, "u1", <<1, 2, 3>>)
       IN /\ HasGood(exemplars)
          /\ HasBad(exemplars)

(* the index with the entries of every user but u taken out *)
OnlyOf(index, u) == SelectSeq(index, LAMBDA e : e.user_id = u)

(* the chosen entries as a similarity query over OnlyOf(index, u) returns
   them *)
InOnlyOf(index, u, results) ==
    [i \in 1..Len(results) |->
        Cardinality({j \in 1..results[i] : index[j].user_id = u})]

(* an exemplar without the position-made conversation_id *)
Content(exemplars) ==
    [i \in 1..Len(exemplars) |->
        [question |-> exemplars[i].question, response |-> exemplars[i].response,
         rating |-> exemplars[i].rating, feedback |-> exemplars[i].feedback,
         improved_response |-> exemplars[i].improved_response,
         timestamp |-> exemplars[i].timestamp]]

(* C8: FindExemplars for user u never returns an exemplar of another user,
   and the records of the other users do not change what it returns: every
   exemplar is built from an index entry of u, the similarity query ranks
   entries of u only, and for every ranking the result is the one FindExemplars
   gives on the index without the entries of the other users. *)
C8_NoCrossUserLeakage ==
    \A u \in Users, top_k \in TopKs :
        \A results \in Candidates(chroma, u, top_k) :
            LET exemplars == FindExemplars(chroma, u, results)
            IN /\ \A i \in 1..Len(results) : chroma[results[i]].user_id = u
               /\ \A i \in 1..Len(exemplars) :
                      \E j \in 1..Len(chroma) :
                          /\ chroma[j].user_id = u
                          /\ chroma[j].timestamp = exemplars[i].timestamp
                          /\ chroma[j].rating = exemplars[i].rating
               /\ InOnlyOf(chroma, u, results) \in Candidates(OnlyOf(chroma, u), u, top_k)
               /\ Content(exemplars) =
                      Content(FindExemplars(OnlyOf(chroma, u), u, InOnlyOf(chroma, u, results)))

(* both users have rated entries in the index, of different ratings, and
   FindExemplars returns an exemplar for u1 *)
C8_Witness_TwoUsersIndexed ==
    /\ IndexHasRated(chroma, "u1", {5})
    /\ IndexHasRated(chroma, "u2", {2})
    /\ ~IndexHasRated(chroma, "u1", {2})
    /\ \E results \in Candidates(chroma, "u1", 1) :
          HasGood(FindExemplars(chroma, "u1", results))

----------------------------------------------------------------------------
(* The parser alone: one text, parsed once *)

(* structured objects *)
Objects ==
    {Obj(<<>>),
     Obj(<<[key |-> <<"k">>, val |-> Num(<<"1">>)]>>),
     Obj(<<[key |-> <<"k">>, val |-> Str(<<"s">>)]>>),
     Obj(<<[key |-> <<"k">>, val |-> Str(<<"}">>)]>>),
     Obj(<<[key |-> <<"k">>, val |-> Obj(<<[key |-> <<"j">>, val |-> Num(<<"1">>)]>>)]>>),
     Obj(<<[key |-> <<"k">>, val |-> Num(<<"1", "1">>)],
           [key |-> <<"j">>, val |-> Str(<<"{", " ", "s">>)]>>),
     Obj(<<[key |-> <<"error">>, val |-> Str(<<"s">>)]>>),
     ErrorDict}

(* prose before or after the document *)
Proses == {<<>>, <<"Here", " ">>, <<NL, "use", " ", "{", "x", "}", " ">>}

(* the document in a fenced json block or bare, between two proses *)
Wrap(fenced, before, after, document) ==
    before
        \o (IF fenced THEN <<Fence, "json", NL>> \o document \o <<NL, Fence>> ELSE document)
        \o after

NotJsonAtAll == <<"not", " ", "json", " ", "at", " ", "all">>

(* every text of at most MaxLen characters *)
MaxLen == 3

Alphabet == {"{", "}", Quote, ":", ",", "1", "k", " "}

ShortTexts == UNION {[1..n -> Alphabet] : n \in 0..MaxLen}

(* an answer with two fenced json blocks *)
TwoBlocks ==
    {Wrap(TRUE, before, <<NL>>, Serialize(x)) \o Wrap(TRUE, <<>>, <<>>, Serialize(y)) :
        before \in Proses, x \in Objects, y \in Objects}

Inputs ==
    {Wrap(fenced, before, after, Serialize(x)) :
        fenced \in BOOLEAN, before \in Proses, after \in Proses, x \in Objects}
        \cup ShortTexts \cup {NotJsonAtAll} \cup TwoBlocks

InitParser ==
    /\ impl = "parser"
    /\ bound = [calls |-> 1, records |-> 0, index |-> 0, messages |-> 0]
    /\ script = <<>>
    /\ Start
    /\ raw \in Inputs

(* parse_json_response(response_content) *)
Parse ==
    /\ impl = "parser"
    /\ result = Pending
    /\ result' = parse_json_response(raw)
    /\ UNCHANGED <<impl, bound, env, clock, sapVars, managerVars, raw>>

NextParser == Parse

SpecParser == InitParser /\ [][NextParser]_vars

(* no strategy yields a document json.loads accepts *)
NoStrategyParses(t) ==
    /\ ~json_loads(t).ok
    /\ FenceStarts(t) # {} => ~json_loads(json_match_group(t)).ok
    /\ (FindBrace(t) # 0 /\ BraceEnd(t, FindBrace(t), 0) # 0) =>
           ~json_loads(SubSeq(t, FindBrace(t), BraceEnd(t, FindBrace(t), 0))).ok

(* C9: Parse never raises, for any text: it returns, and where none of the
   three strategies yields a parsable document, as for "not json at all", what
   it returns is the error value. *)
C9_ParseNeverRaises ==
    /\ result.outcome \in {"pending", "return"}
    /\ (result.outcome = "return" /\ NoStrategyParses(raw)) => result.val = ErrorDict
    /\ (result.outcome = "return" /\ raw = NotJsonAtAll) => result.val = ErrorDict

(* "not json at all" was parsed and the error value came back; so did a
   text whose balanced braces enclose no document *)
C9_Witness_NotJsonAtAll ==
    /\ raw = NotJsonAtAll
    /\ NoStrategyParses(raw)
    /\ result = Return(ErrorDict)

(* C10: for every structured object x, Parse returns x for Serialize(x),
   for Serialize(x) in a fenced json block, and for either of them preceded
   and/or followed by prose. *)
C10_ParseInvertsSerialize ==
    \A x \in Objects, fenced \in BOOLEAN, before \in Proses, after \in Proses :
        (result.outcome # "pending" /\ raw = Wrap(fenced, before, after, Serialize(x))) =>
            result = Return(x)

----------------------------------------------------------------------------
(* Write-through of the manager *)

(* the "messages" collection holds the turn of the conversation *)
InMessagesCollection(collection, cid, q, a) ==
    \E i \in 1..Len(collection) :
        /\ collection[i].conversation_id = cid
        /\ collection[i].user_message = q
        /\ collection[i].bot_response = a

(* C11: Append is write-through: after append_message the appended
   (question, answer) turn is in the cold archive of the manager, the
   "messages" collection, whether the conversation is in the hot tier or has
   been evicted from it. *)
C11_AppendIsWriteThrough ==
    [][\A cid \in ConversationIds, q \in Questions, a \in Answers :
          AppendMessage(cid, q, a) => InMessagesCollection(messages_collection', cid, q, a)
      ]_vars

----------------------------------------------------------------------------
(* Outages: behaviours in which the generator, the archive file and ChromaDB
   fail and come back between the calls *)

(* the collaborators of the implementation *)
Outages ==
    IF impl = "manager"
    THEN {[AllUp EXCEPT !.chroma = c] : c \in {"up", "down"}}
    ELSE {[AllUp EXCEPT !.llm = l, !.archive = f] : l \in {"up", "down"}, f \in {"up", "down"}}

(* a collaborator fails or comes back *)
Outage(e) ==
    /\ e \in Outages
    /\ e # env
    /\ env' = e
    /\ UNCHANGED <<impl, bound, clock, sapVars, managerVars, parserVars>>

FaultImpls == {"manager", "updated", "fixed"}

InitFaults ==
    /\ impl \in FaultImpls
    /\ raw = <<>>
    /\ bound = IF impl = "manager"
               THEN [calls |-> MaxCalls, records |-> 0, index |-> 0, messages |-> MaxMessages]
               ELSE [calls |-> MaxFaultCalls, records |-> MaxRecords, index |-> MaxIndex,
                     messages |-> 0]
    /\ script = <<>>
    /\ Start

NextFaults ==
    \/ \E e \in Outages : Outage(e)
    \/ \E u \in Users, q \in Questions, a \in Answers : GetResponseFixed(u, q, a)
    \/ \E u \in Users, q \in Questions, a \in Answers, rating \in Ratings, fb \in Feedbacks :
          ProcessFeedbackFixed(u, q, a, rating, fb)
    \/ \E u \in Users, q \in Questions, a \in Answers, rating \in Ratings, fb \in Feedbacks,
          corrected \in Corrected : AddUserFeedbackFixed(u, q, a, rating, fb, corrected)
    \/ \E u \in Users, q \in Questions, a \in Answers : ChatUpdated(u, q, a)
    \/ \E u \in Users, q \in Questions, a \in Answers, rating \in Ratings, fb \in Feedbacks :
          UpdateFeedbackUpdated(u, q, a, rating, fb)
    \/ \E u \in Users, q \in Questions, a \in Answers, rating \in Ratings, fb \in Feedbacks,
          corrected \in Corrected : AddUserFeedbackUpdated(u, q, a, rating, fb, corrected)
    \/ \E s \in Sessions, u \in Users : CreateNewConversation(s, u)
    \/ \E cid \in ConversationIds, q \in Questions, a \in Answers : AppendMessage(cid, q, a)
    \/ \E u \in Users, s \in Sessions, q \in Questions, a \in Answers : AddMessage(u, s, q, a)

SpecFaults == InitFaults /\ [][NextFaults]_vars

(* C15: when the generator fails during SubmitFeedback, the call returns no
   improved answer, the rating and the feedback of the matched record are
   recorded, and the record gets no improved answer. *)
C15_GeneratorFailureDegrades ==
    [][\A u \in Users, q \in Questions, a \in Answers, rating \in Ratings, fb \in Feedbacks :
          (/\ env.llm = "down"
           /\ env.archive = "up"
           /\ MatchIndex(conversations, u, q, a) # 0
           /\ SubmitFeedback(u, q, a, rating, fb))
          => LET i == MatchIndex(conversations, u, q, a)
             IN /\ lastCall'.improved = None
                /\ conversations'[i].rating = rating
                /\ Truthy(fb) => conversations'[i].feedback = fb
                /\ conversations'[i].improved_response = None
      ]_vars

(* the result the specification names for a call of the manager whose write
   to ChromaDB failed *)
NotDurablyPersisted == <<"not durably persisted">>

(* C16: when ChromaDB is unavailable during an Append (create_new_conversation,
   or add_message around it), the call returns to its caller, the new
   conversation is the newest of the user's deque, and the result is flagged
   as not durably persisted. *)
C16_AppendSurvivesArchiveOutage ==
    [][\A s \in Sessions, u \in Users :
          (/\ env.chroma = "down"
           /\ \/ CreateNewConversation(s, u)
              \/ \E q \in Questions, a \in Answers : AddMessage(u, s, q, a))
          => /\ ret'.outcome = "return"
             /\ ret'.turns = NotDurablyPersisted
             /\ Len(recent_conversations'[u]) > 0
             /\ Last(recent_conversations'[u]).created_at = clock
      ]_vars

(* the result the specification names for a feedback call whose write of
   the archive failed *)
ArchiveWriteFailed == <<"ArchiveWriteFailed">>

(* C17: a feedback call whose write of the archive fails tells its caller
   so: a SubmitFeedback or UpdateWithFeedback that matched an unrated record
   either leaves the rating in the archive or returns the error. *)
C17_WriteFailureIsSurfaced ==
    [][\A u \in Users, q \in Questions, a \in Answers, rating \in Ratings, fb \in Feedbacks :
          (/\ MatchIndex(conversations, u, q, a) # 0
           /\ \/ SubmitFeedback(u, q, a, rating, fb)
              \/ UpdateWithFeedback(u, q, a, rating, fb))
          => \/ conversations'[MatchIndex(conversations, u, q, a)].rating = rating
             \/ lastCall'.improved = ArchiveWriteFailed
      ]_vars

----------------------------------------------------------------------------
(* ReadContext: get_conversation_context, read once on a store that a
   script of create_new_conversation and append_message calls has built *)

(* the turn appended at time ts *)
TurnAt(ts) == <<(<<"q", ts>>), (<<"a1">>)>>

Create(u) == [op |-> "create", u |-> u, k |-> 0]

Add(k) == [op |-> "append", u |-> "none", k |-> k]

(* n times the call *)
RECURSIVE Repeat(_, _)
Repeat(call, n) == IF n = 0 THEN <<>> ELSE <<call>> \o Repeat(call, n - 1)

(* u1 creates its conversations 1..c, the first being number first of the
   collection, and appends fill[k] turns to the k-th while it is the newest *)
RECURSIVE Fill(_, _, _)
Fill(c, fill, first) ==
    IF c = 0 THEN <<>>
    ELSE Fill(c - 1, fill, first) \o <<Create("u1")>> \o Repeat(Add(first + c - 1), fill[c])

(* the calls before the read: with other, u2 has created four conversations
   and appended a turn to its first, which has left its deque by then; u1
   creates c conversations and fills them, then appends late turns to its
   first conversation and tail turns to its newest *)
Script(other, c, fill, late, tail) ==
    LET before == IF other THEN Repeat(Create("u2"), 4) \o <<Add(1)>> ELSE <<>>
        first == IF other THEN 5 ELSE 1
    IN before \o Fill(c, fill, first) \o Repeat(Add(first), late)
          \o Repeat(Add(first + c - 1), tail)

Scripts ==
    UNION {{Script(other, c, fill, late, tail) :
               other \in BOOLEAN, fill \in [1..c -> {0, 1, 3}],
               late \in {0, 1, MaxLate}, tail \in {0, MaxTail}} : c \in 1..MaxConversations}

InitContext ==
    /\ impl = "manager"
    /\ raw = <<>>
    /\ Start
    /\ script \in Scripts
    /\ bound = [calls |-> Len(script) + 1, records |-> 0, index |-> 0,
                messages |-> 3 + MaxLate + MaxTail]

(* the caller makes the next call of its script *)
Scripted ==
    /\ clock <= Len(script)
    /\ LET call == script[clock]
       IN IF call.op = "create"
          THEN CreateNewConversation("s1", call.u)
          ELSE AppendMessage(Uuid(call.k), TurnAt(clock)[1], TurnAt(clock)[2])

(* EnhancedChatManager.get_conversation_context, once the script is through:
   the deque of the user is fetched, and made if the user has none; answers:
   messages_collection.get answers the call it gets *)
GetConversationContext(u, cid, answers) ==
    /\ impl = "manager"
    /\ clock <= bound.calls
    /\ clock > Len(script)
    /\ running = "none"
    /\ env.chroma = "down" => ~answers
    /\ ret' = Returns(NoId, get_conversation_context(ManagerState, u, cid, answers))
    /\ present' = present \cup {u}
    /\ Tick
    /\ UNCHANGED <<impl, bound, env, sapVars, recent_conversations,
                   conversations_collection, messages_collection, handlerVars, script,
                   parserVars>>

NextContext ==
    \/ Scripted
    \/ \E u \in Users, cid \in ConversationIds \cup {NoId}, answers \in BOOLEAN :
          GetConversationContext(u, cid, answers)

SpecContext == InitContext /\ [][NextContext]_vars

(* the conversations of the deque that carry the id *)
Resident(recent_convs, cid) ==
    {i \in 1..Len(recent_convs) : cid # NoId /\ recent_convs[i].conversation_id = cid}

(* the last 3 turns of each of the last 2 conversations of the deque *)
HotTurns(recent_convs) ==
    LET m == Len(recent_convs)
    IN IF m = 0 THEN <<>>
       ELSE IF m = 1 THEN LastN(recent_convs[1].messages, 3)
       ELSE LastN(recent_convs[m - 1].messages, 3) \o LastN(recent_convs[m].messages, 3)

(* the turns of the "messages" collection a read with this id can be padded
   with *)
ColdTurns(cid) ==
    {<<messages_collection[i].user_message, messages_collection[i].bot_response>> :
        i \in {j \in 1..Len(messages_collection) :
                  cid = NoId \/ messages_collection[j].conversation_id = cid}}

(* C12: ReadContext with the id of a conversation of the user's hot tier
   returns the last min(10, n) turns of that conversation and nothing else.
   Any other read starts with the last 3 turns of each of the last 2 hot
   conversations; with 5 or more of them that is the result; with fewer than
   5 the result is padded with turns of the cold archive, namely with at least
   one whenever the archive answers and holds a turn for the read; the result
   never has more than 10 turns. *)
C12_ReadContextSelection ==
    [][\A u \in Users, cid \in ConversationIds \cup {NoId}, answers \in BOOLEAN :
          GetConversationContext(u, cid, answers) =>
              LET turns == ret'.turns
                  hot == recent_conversations[u]
                  base == HotTurns(hot)
              IN IF Resident(hot, cid) # {}
                 THEN \E i \in Resident(hot, cid) :
                         LET n == Len(hot[i].messages)
                         IN /\ Len(turns) = Min(10, n)
                            /\ \A j \in 1..Len(turns) :
                                  turns[j] = hot[i].messages[n - Len(turns) + j]
                 ELSE /\ Len(turns) <= 10
                      /\ Len(turns) >= Len(base)
                      /\ SubSeq(turns, 1, Len(base)) = base
                      /\ Len(base) >= 5 => turns = base
                      /\ \A j \in (Len(base) + 1)..Len(turns) : turns[j] \in ColdTurns(cid)
                      /\ (Len(base) < 5 /\ answers /\ ColdTurns(cid) # {})
                            => Len(turns) > Len(base)
      ]_vars

(* a read without a resident id has returned four hot turns padded with the
   five turns the archive gives *)
C12_Witness_PaddedToNine ==
    /\ ret.outcome = "return"
    /\ Len(ret.turns) = 9
    /\ \E u \in Users : Len(HotTurns(recent_conversations[u])) = 4
                        /\ SubSeq(ret.turns, 1, 4) = HotTurns(recent_conversations[u])

(* the time a turn was appended at *)
AppendedAt(turn) == turn[1][2]

(* C13: the sequence ReadContext returns is ordered most-recent-last: no
   turn of it stands before a turn that was appended earlier. *)
C13_MostRecentLast ==
    ret.outcome = "return" =>
        \A i, j \in 1..Len(ret.turns) :
            i < j => AppendedAt(ret.turns[i]) <= AppendedAt(ret.turns[j])

----------------------------------------------------------------------------
(* Concurrent appends: create_new_conversation statement by statement, in
   two request handlers *)

(* handlers in threads: any handler may run its next statement *)
ThreadRuns(h) == TRUE

(* every handler of backend/app.py is an async def without an await: the
   event loop runs a handler from its first statement to its return, and only
   then the next one *)
EventLoopRuns(h) == running \in {"none", h}

(* deque(maxlen=self.max_recent_conversations).append(x) *)
deque_push(dq, x) == LastN(Append(dq, x), max_recent_conversations)

(* the deque the handler got from _get_user_recent_conversations: the one
   of the dictionary, or one that has been replaced there since *)
Deque(h) == IF req[h].bound THEN recent_conversations[req[h].u] ELSE req[h].items

(* the deque the handler holds becomes dq *)
DequeBecomes(h, dq) ==
    IF req[h].bound
    THEN /\ recent_conversations' = [recent_conversations EXCEPT ![req[h].u] = dq]
         /\ UNCHANGED req
    ELSE /\ req' = [req EXCEPT ![h].items = dq]
         /\ UNCHANGED recent_conversations

(* the handler holds a deque of user u *)
HoldsDeque(h, u) == pc[h] \in {"len", "pop", "push"} /\ req[h].u = u

(* create_new_conversation is entered: the id is drawn and the conversation
   is added to the "conversations" collection *)
Begin(h, s, u) ==
    /\ impl = "manager"
    /\ clock <= bound.calls
    /\ pc[h] = "idle"
    /\ EventLoopRuns(h)
    /\ LET conversation_id == Uuid(Len(conversations_collection) + 1)
       IN /\ conversations_collection' =
                 Append(conversations_collection,
                        conversation_metadata(conversation_id, s, u, clock))
          /\ req' = [req EXCEPT
                        ![h] = [s |-> s, u |-> u,
                                conv |-> conversation_data(conversation_id, s, u, clock),
                                bound |-> TRUE, items |-> <<>>]]
    /\ pc' = [pc EXCEPT ![h] = "lookup"]
    /\ running' = h
    /\ Tick
    /\ UNCHANGED <<impl, bound, env, sapVars, recent_conversations, messages_collection,
                   present, ret, script, parserVars>>

(* _get_user_recent_conversations: if user_id not in self.recent_conversations *)
Lookup(h) ==
    /\ pc[h] = "lookup"
    /\ EventLoopRuns(h)
    /\ pc' = [pc EXCEPT ![h] = IF req[h].u \in present THEN "fetch" ELSE "assign"]
    /\ UNCHANGED <<impl, bound, env, clock, sapVars, storeVars, ret, req, running, script,
                   parserVars>>

(* self.recent_conversations[user_id] = deque(maxlen=...): a handler that
   holds the deque this one replaces keeps that deque, which nobody reads *)
Assign(h) ==
    /\ pc[h] = "assign"
    /\ EventLoopRuns(h)
    /\ present' = present \cup {req[h].u}
    /\ recent_conversations' = [recent_conversations EXCEPT ![req[h].u] = <<>>]
    /\ req' = [k \in Handlers |->
                  IF k # h /\ HoldsDeque(k, req[h].u) /\ req[k].bound
                  THEN [req[k] EXCEPT !.bound = FALSE,
                                      !.items = recent_conversations[req[h].u]]
                  ELSE req[k]]
    /\ pc' = [pc EXCEPT ![h] = "fetch"]
    /\ UNCHANGED <<impl, bound, env, clock, sapVars, conversations_collection,
                   messages_collection, ret, running, script, parserVars>>

(* return self.recent_conversations[user_id] *)
Fetch(h) ==
    /\ pc[h] = "fetch"
    /\ EventLoopRuns(h)
    /\ req' = [req EXCEPT ![h].bound = TRUE]
    /\ pc' = [pc EXCEPT ![h] = "len"]
    /\ UNCHANGED <<impl, bound, env, clock, sapVars, storeVars, ret, running, script,
                   parserVars>>

(* if len(recent_convs) == self.max_recent_conversations *)
LenTest(h) ==
    /\ pc[h] = "len"
    /\ EventLoopRuns(h)
    /\ pc' = [pc EXCEPT
                 ![h] = IF Len(Deque(h)) = max_recent_conversations THEN "pop" ELSE "push"]
    /\ UNCHANGED <<impl, bound, env, clock, sapVars, storeVars, ret, req, running, script,
                   parserVars>>

(* recent_convs.popleft(): IndexError on an empty deque leaves the call *)
Pop(h) ==
    /\ pc[h] = "pop"
    /\ EventLoopRuns(h)
    /\ IF Deque(h) = <<>>
       THEN /\ pc' = [pc EXCEPT ![h] = "idle"]
            /\ running' = "none"
            /\ ret' = Raises
            /\ UNCHANGED <<req, recent_conversations>>
       ELSE /\ DequeBecomes(h, Tail(Deque(h)))
            /\ pc' = [pc EXCEPT ![h] = "push"]
            /\ UNCHANGED <<running, ret>>
    /\ UNCHANGED <<impl, bound, env, clock, sapVars, conversations_collection,
                   messages_collection, present, script, parserVars>>

(* recent_convs.append(conversation_data); return conversation_id *)
Push(h) ==
    /\ pc[h] = "push"
    /\ EventLoopRuns(h)
    /\ DequeBecomes(h, deque_push(Deque(h), req[h].conv))
    /\ pc' = [pc EXCEPT ![h] = "idle"]
    /\ running' = "none"
    /\ ret' = Returns(req[h].conv.conversation_id, <<>>)
    /\ UNCHANGED <<impl, bound, env, clock, sapVars, conversations_collection,
                   messages_collection, present, script, parserVars>>

InitLoop ==
    /\ impl = "manager"
    /\ raw = <<>>
    /\ script = <<>>
    /\ bound = [calls |-> MaxAppends, records |-> 0, index |-> 0, messages |-> 0]
    /\ Start

NextLoop ==
    \E h \in Handlers :
        \/ \E s \in Sessions, u \in Users : Begin(h, s, u)
        \/ Lookup(h)
        \/ Assign(h)
        \/ Fetch(h)
        \/ LenTest(h)
        \/ Pop(h)
        \/ Push(h)

SpecLoop == InitLoop /\ [][NextLoop]_vars

(* no handler is inside create_new_conversation *)
Quiescent == \A h \in Handlers : pc[h] = "idle"

(* C14: under every interleaving of the appends of two handlers that the
   scheduling of the handlers allows, no state a reader can run in shows a
   deque of more than K = 3 entries, and whenever the appends have completed
   the deque of each user holds min(K, total) entries: the last min(K, total)
   conversations the user created, each once, in whatever order. *)
C14_EvictionAtomicWithInsertion ==
    /\ \A u \in Users : Len(recent_conversations[u]) <= 3
    /\ Quiescent =>
          \A u \in Users :
              LET created == CreatedBy(conversations_collection, u)
                  hot == HotIds(recent_conversations[u])
              IN /\ Len(hot) = Min(3, Len(created))
                 /\ {hot[i] : i \in 1..Len(hot)}
                        = {LastN(created, 3)[i] : i \in 1..Min(3, Len(created))}

(* both handlers have appended for u1, the second of them to a full deque:
   u1 has created four conversations and its deque holds the last three, the
   newest two being those of the two handlers *)
C14_Witness_BothHandlersAppended ==
    /\ Quiescent
    /\ req["h1"].u = "u1"
    /\ req["h2"].u = "u1"
    /\ Len(CreatedBy(conversations_collection, "u1")) = 4
    /\ Len(recent_conversations["u1"]) = 3
    /\ {recent_conversations["u1"][2].conversation_id,
        recent_conversations["u1"][3].conversation_id}
           = {req["h1"].conv.conversation_id, req["h2"].conv.conversation_id}

----------------------------------------------------------------------------
(* Which record a feedback call rates, and what it leaves alone *)

(* the unrated records of the triple *)
UnratedMatches(data, u, q, a) ==
    {i \in 1..Len(data) :
        /\ data[i].user_id = u
        /\ data[i].question = q
        /\ data[i].response = a
        /\ data[i].rating = NoRating}

(* the feedback calls: process_feedback_and_improve and add_user_feedback *)
FeedbackCall(u, q, a, rating, fb) ==
    SubmitFeedback(u, q, a, rating, fb) \/ UpdateWithFeedback(u, q, a, rating, fb)

(* add_user_feedback touches neither the index nor the deque and returns
   nothing; with Stored, this is put before a feedback call so that only the
   calls a step can be an instance of are evaluated *)
OnlyArchive == chroma' = chroma /\ lastCall' = Call(FALSE, None)

(* the archive write of a step has changed a record *)
RecordChanged ==
    \E i \in 1..Len(conversations) :
        i <= Len(conversations') /\ conversations'[i] # conversations[i]

(* C18: when several unrated records of the user match the question and the
   answer, the feedback call rates the one created last and leaves the older
   matches as they are; it returns as it does for a single match and adds no
   record. *)
C18_NewestMatchIsRated ==
    [][RecordChanged =>
          \A u \in Users, q \in Questions, a \in Answers :
              Cardinality(UnratedMatches(conversations, u, q, a)) >= 2 =>
                  \A rating \in Ratings, fb \in Feedbacks :
                      FeedbackCall(u, q, a, rating, fb) =>
                          LET hits == UnratedMatches(conversations, u, q, a)
                              newest == CHOOSE i \in hits : \A j \in hits :
                                            conversations[j].timestamp
                                                <= conversations[i].timestamp
                          IN /\ conversations'[newest].rating = rating
                             /\ \A j \in hits \ {newest} :
                                   conversations'[j] = conversations[j]
                             /\ Len(conversations') = Len(conversations)
      ]_vars

(* two appends of one triple and one feedback: the older record is unrated,
   the newer one rated *)
C18_Witness_OlderMatchStillUnrated ==
    /\ Len(conversations) = 2
    /\ Matches_rated_too(conversations[2], conversations[1].user_id,
                          conversations[1].question, conversations[1].response)
    /\ conversations[1].rating = NoRating
    /\ conversations[2].rating # NoRating

(* C19: a feedback call of user u changes at most one record of the
   archive, that record is a record of u, and only its rating, feedback and
   improved_response change: conversation_id, user_id, question, response and
   timestamp of every record, and every record of every other user, stay as
   they are. *)
C19_UpdateFrame ==
    [][conversations' # conversations =>
          /\ Len(conversations') >= Len(conversations)
          /\ \A i \in 1..Len(conversations) :
                /\ conversations'[i].conversation_id = conversations[i].conversation_id
                /\ conversations'[i].user_id = conversations[i].user_id
                /\ conversations'[i].question = conversations[i].question
                /\ conversations'[i].response = conversations[i].response
                /\ conversations'[i].timestamp = conversations[i].timestamp
          /\ Cardinality({i \in 1..Len(conversations) :
                             conversations'[i] # conversations[i]}) <= 1
          /\ \A u \in Users, q \in Questions, a \in Answers, rating \in Ratings,
                fb \in Feedbacks :
                (\/ Stored(u, rating, fb) /\ SubmitFeedback(u, q, a, rating, fb)
                 \/ OnlyArchive /\ UpdateWithFeedback(u, q, a, rating, fb)) =>
                    /\ \A i \in 1..Len(conversations) :
                          conversations'[i] # conversations[i] =>
                              conversations[i].user_id = u
                    /\ \A v \in Users \ {u} :
                          UserConversations(conversations', v)
                              = UserConversations(conversations, v)
      ]_vars

(* u1 has rated its record while u2 holds an unrated record of the same
   question and answer, appended later *)
C19_Witness_OtherUsersMatchUntouched ==
    /\ Len(conversations) = 2
    /\ conversations[1].user_id = "u1"
    /\ conversations[2].user_id = "u2"
    /\ conversations[2].question = conversations[1].question
    /\ conversations[2].response = conversations[1].response
    /\ conversations[1].rating # NoRating
    /\ conversations[2].rating = NoRating

----------------------------------------------------------------------------
(* Corrected responses: add_user_feedback with its corrected_response *)

CorrectedResponses == {None, <<"cr">>}

InitCorrected ==
    /\ impl \in Impls
    /\ raw = <<>>
    /\ script = <<>>
    /\ bound = [calls |-> MaxFaultCalls, records |-> MaxRecords, index |-> MaxIndex,
                messages |-> 0]
    /\ Start

NextCorrected ==
    \/ \E u \in Users, q \in Questions, a \in Answers : GetResponseFixed(u, q, a)
    \/ \E u \in Users, q \in Questions, a \in Answers, rating \in Ratings, fb \in Feedbacks :
          ProcessFeedbackFixed(u, q, a, rating, fb)
    \/ \E u \in Users, q \in Questions, a \in Answers, rating \in Ratings, fb \in Feedbacks,
          corrected \in CorrectedResponses :
          AddUserFeedbackFixed(u, q, a, rating, fb, corrected)
    \/ \E u \in Users, q \in Questions, a \in Answers : ChatUpdated(u, q, a)
    \/ \E u \in Users, q \in Questions, a \in Answers, rating \in Ratings, fb \in Feedbacks :
          UpdateFeedbackUpdated(u, q, a, rating, fb)
    \/ \E u \in Users, q \in Questions, a \in Answers, rating \in Ratings, fb \in Feedbacks,
          corrected \in CorrectedResponses :
          AddUserFeedbackUpdated(u, q, a, rating, fb, corrected)

SpecCorrected == InitCorrected /\ [][NextCorrected]_vars

(* the rating the implementation improves below *)
ImprovementThreshold == IF impl = "updated" THEN 4 ELSE 5

(* C20: in every record of the archive improved_response is set only
   together with a rating below the improvement threshold and a non-empty
   feedback. *)
C20_ImprovedOnlyWithLowRatingAndFeedback ==
    \A i \in 1..Len(conversations) :
        conversations[i].improved_response # None =>
            /\ conversations[i].rating # NoRating
            /\ conversations[i].rating < ImprovementThreshold
            /\ Truthy(conversations[i].feedback)

----------------------------------------------------------------------------
(* The slots of FindExemplars *)

(* the smallest of a non-empty set of positions *)
First(S) == CHOOSE i \in S : \A j \in S : i <= j

(* the i-th similarity result as FindExemplars converts it *)
Candidate(index, results, i) ==
    IF impl = "fixed" THEN conversation_fixed(index[results[i]], i - 1)
    ELSE conversation_updated(index[results[i]])

(* the ranks of the similarity results rated in ratings *)
RanksRated(index, results, ratings) ==
    {i \in 1..Len(results) : index[results[i]].rating \in ratings}

(* C21: FindExemplars returns at most one exemplar rated >= 4 and at most
   one rated <= 2; when the similarity results hold a candidate rated >= 4
   the good slot is the one of them with the best similarity rank, when they
   hold a candidate rated <= 2 the bad slot is the one of them with the best
   similarity rank; no exemplar rated 3 or unrated is returned. *)
C21_SlotsAreBestRanked ==
    \A u \in Users, top_k \in TopKs :
        \A results \in Candidates(chroma, u, top_k) :
            LET exemplars == FindExemplars(chroma, u, results)
                goods == SelectSeq(exemplars, LAMBDA c : c.rating \in 4..5)
                bads == SelectSeq(exemplars, LAMBDA c : c.rating \in 1..2)
                good == RanksRated(chroma, results, 4..5)
                bad == RanksRated(chroma, results, 1..2)
            IN /\ Len(goods) <= 1
               /\ Len(bads) <= 1
               /\ good # {} => goods = <<Candidate(chroma, results, First(good))>>
               /\ bad # {} => bads = <<Candidate(chroma, results, First(bad))>>
               /\ \A i \in 1..Len(exemplars) : exemplars[i].rating \notin {3, NoRating}

(* the positions of the index entries of user u rated <= 2, in the order in
   which a full scan meets them *)
ScanRated(index, u) ==
    {i \in 1..Len(index) : index[i].user_id = u /\ index[i].rating \in 1..2}

(* C22: when the similarity results hold no candidate rated <= 2 and the
   index holds an entry of the user rated <= 2, the bad slot is the first
   such entry of a full scan; when the similarity results hold a candidate
   rated <= 2 the bad slot is one of the similarity candidates. *)
C22_FallbackBroadening ==
    \A u \in Users, top_k \in TopKs :
        \A results \in Candidates(chroma, u, top_k) :
            LET exemplars == FindExemplars(chroma, u, results)
                bads == SelectSeq(exemplars, LAMBDA c : c.rating \in 1..2)
                bad == RanksRated(chroma, results, 1..2)
                scan == ScanRated(chroma, u)
            IN /\ (bad = {} /\ scan # {}) =>
                      /\ Len(bads) = 1
                      /\ bads[1].timestamp = chroma[First(scan)].timestamp
                      /\ bads[1].rating = chroma[First(scan)].rating
               /\ bad # {} => \E i \in bad : bads = <<Candidate(chroma, results, i)>>

----------------------------------------------------------------------------
(* The order of the strategies of the parser *)

(* the candidate document of the balanced-delimiter scan, <<>> if the text
   has no opening brace or the braces do not balance *)
ScanCandidate(t) ==
    IF FindBrace(t) # 0 /\ BraceEnd(t, FindBrace(t), 0) # 0
    THEN SubSeq(t, FindBrace(t), BraceEnd(t, FindBrace(t), 0))
    ELSE <<>>

(* the direct parse fails and the fenced block found does not parse *)
FencedBlockFails(t) ==
    /\ ~json_loads(t).ok
    /\ FenceStarts(t) # {}
    /\ ~json_loads(json_match_group(t)).ok

(* parse_json_response came to its last line: no return of a parsed document *)
ParseFailed(t) == ~json_loads(t).ok /\ extract_json(t).outcome # "return"

(* C23: the strategies are tried in order until one succeeds: when the
   direct parse fails and the fenced block found does not parse, the result
   is the one of the balanced-delimiter scan, and Parse fails only if no
   strategy yields a document that parses. *)
C23_ScanAfterFailedBlock ==
    result.outcome # "pending" =>
        /\ (FencedBlockFails(raw) /\ json_loads(ScanCandidate(raw)).ok) =>
               result = Return(json_loads(ScanCandidate(raw)).val)
        /\ ParseFailed(raw) => NoStrategyParses(raw)

(* prose without a brace *)
BraceFree == {p \in Proses : \A i \in 1..Len(p) : p[i] \notin {"{", "}"}}

(* C24: for every structured object x, brace-free prose before and any text
   after Serialize(x), Parse returns x, and where the direct parse fails the
   candidate document of the balanced-delimiter scan is exactly
   Serialize(x). *)
C24_ScanSelectsTheDocument ==
    \A x \in Objects, before \in BraceFree, after \in Proses :
        (result.outcome # "pending" /\ raw = Wrap(FALSE, before, after, Serialize(x))) =>
            /\ ~json_loads(raw).ok => ScanCandidate(raw) = Serialize(x)
            /\ result = Return(x)

----------------------------------------------------------------------------
(* The index and the archive *)

(* the positions of the rated records of user u in the archive *)
RatedRecords(u) ==
    {j \in 1..Len(conversations) :
        conversations[j].user_id = u /\ conversations[j].rating # NoRating}

(* the positions of the index entries of user u *)
IndexedOf(u) == {i \in 1..Len(chroma) : chroma[i].user_id = u}

(* C25: every index entry stands under the id of a rated record of the
   archive, no two entries stand under the same id, and so the index holds at
   most one entry per rated record of a user, after any sequence of feedback
   calls and restarts. *)
C25_OneIndexEntryPerRecord ==
    /\ \A i \in 1..Len(chroma) :
          \E j \in RatedRecords(chroma[i].user_id) :
              conversations[j].conversation_id = chroma[i].id
    /\ \A i, k \in 1..Len(chroma) : chroma[i].id = chroma[k].id => i = k
    /\ \A u \in Users : Cardinality(IndexedOf(u)) <= Cardinality(RatedRecords(u))

----------------------------------------------------------------------------
(* The hot tier as a view of the archive *)

(* a restart of the process of user u: a new SAPChatSystem is constructed *)
Restart(u) == CreateChatSessionFixed(u) \/ CreateChatSessionUpdated(u)

(* the questions of the hot tier of u are those of the K most recent
   records of u in the archive, in the same order *)
SameTurns(dq, data, u) ==
    /\ Len(dq) = Len(load_recent(data, u))
    /\ \A i \in 1..Len(dq) : dq[i].question = load_recent(data, u)[i].question

(* C26: a restart rebuilds the hot tier of the user as the K most recent
   archive records of the user ordered by created_at, and the hot tier is a
   view of the archive: a hot tier that holds the turns of these records,
   the newest with its improved answer or not, is the one the restart
   builds. *)
C26_HotTierIsViewOfArchive ==
    [][\A u \in Users :
          Restart(u) =>
              /\ conversation_history'[u] = load_recent(conversations', u)
              /\ SameTurns(conversation_history[u], conversations, u) =>
                     conversation_history'[u] = conversation_history[u]]_vars

----------------------------------------------------------------------------
(* Whose turns a read returns *)

(* the user the conversation was created for *)
UserOf(cid) ==
    {conversations_collection[i].user_id :
        i \in {j \in 1..Len(conversations_collection) : conversations_collection[j].id = cid}}

(* the users a turn belongs to: those of the conversations that hold it, in
   recent memory or in the "messages" collection *)
Owners(turn) ==
    {u \in Users : \E i \in 1..Len(recent_conversations[u]) :
        \E j \in 1..Len(recent_conversations[u][i].messages) :
            recent_conversations[u][i].messages[j] = turn}
    \cup UNION {UserOf(messages_collection[i].conversation_id) :
                   i \in {j \in 1..Len(messages_collection) :
                             /\ messages_collection[j].user_message = turn[1]
                             /\ messages_collection[j].bot_response = turn[2]}}

(* C27: whatever the archive holds, every turn ReadContext returns for user
   u, with or without a conversation id, belongs to a conversation of u. *)
C27_ContextOnlyOfTheUser ==
    [][\A u \in Users, cid \in ConversationIds \cup {NoId}, answers \in BOOLEAN :
          GetConversationContext(u, cid, answers) =>
              \A j \in 1..Len(ret'.turns) : Owners(ret'.turns[j]) = {u}
      ]_vars

----------------------------------------------------------------------------
(* Two request handlers of backend/app.py on the JSON archive: each loads
   the file into its local data, changes data and writes the file from it *)

(* chat: SAPChatSystem(user_id) is constructed and
   add_conversation_to_unified_data loads the file *)
ChatLoads(h, u, q, a) ==
    /\ impl = "updated"
    /\ clock <= bound.calls
    /\ pc[h] = "idle"
    /\ EventLoopRuns(h)
    /\ Len(conversations) < bound.records
    /\ conversation_history' =
           [conversation_history EXCEPT ![u] = load_recent(conversations, u)]
    /\ req' = [req EXCEPT
                  ![h] = [op |-> "append", u |-> u, q |-> q, a |-> a, rating |-> NoRating,
                          ts |-> clock, data |-> conversations]]
    /\ pc' = [pc EXCEPT ![h] = "save"]
    /\ running' = h
    /\ Tick
    /\ UNCHANGED <<impl, bound, env, conversations, chroma, lastCall, storeVars, ret,
                   script, parserVars>>

(* update_feedback: SAPChatSystem(user_id) is constructed and
   process_feedback_and_improve, called without a feedback text, comes to
   update_conversation_with_feedback, which loads the file *)
FeedbackLoads(h, u, q, a, rating) ==
    /\ impl = "updated"
    /\ clock <= bound.calls
    /\ pc[h] = "idle"
    /\ EventLoopRuns(h)
    /\ Len(chroma) < bound.index
    /\ conversation_history' =
           [conversation_history EXCEPT ![u] = load_recent(conversations, u)]
    /\ req' = [req EXCEPT
                  ![h] = [op |-> "update", u |-> u, q |-> q, a |-> a, rating |-> rating,
                          ts |-> clock, data |-> conversations]]
    /\ pc' = [pc EXCEPT ![h] = "save"]
    /\ running' = h
    /\ Tick
    /\ UNCHANGED <<impl, bound, env, conversations, chroma, lastCall, storeVars, ret,
                   script, parserVars>>

(* data as the handler has changed it when it calls save_unified_chat_data *)
Changed(h) ==
    IF req[h].op = "append"
    THEN add_conversation(req[h].data, req[h].u, req[h].ts, req[h].q, req[h].a,
                          NoRating, None, None)
    ELSE update_conversation_with_feedback_updated(req[h].data, req[h].u, req[h].q,
                                                   req[h].a, req[h].rating, None, None)

(* save_unified_chat_data(data), and the handler returns; update_feedback
   has stored the conversation in ChromaDB before that *)
Saves(h) ==
    /\ pc[h] = "save"
    /\ EventLoopRuns(h)
    /\ conversations' = save_chat_data(Changed(h))
    /\ IF req[h].op = "update"
       THEN /\ chroma' = store_conversation_in_chromadb_updated(chroma, req[h].ts, req[h].u,
                             req[h].q, req[h].a, req[h].rating, None, None)
            /\ lastCall' = Call(FALSE, None)
       ELSE UNCHANGED <<chroma, lastCall>>
    /\ pc' = [pc EXCEPT ![h] = "idle"]
    /\ running' = "none"
    /\ UNCHANGED <<impl, bound, env, clock, conversation_history, storeVars, ret, req,
                   script, parserVars>>

InitArchive ==
    /\ impl = "updated"
    /\ raw = <<>>
    /\ script = <<>>
    /\ bound = [calls |-> MaxCalls, records |-> MaxRecords, index |-> MaxIndex,
                messages |-> 0]
    /\ Start

NextArchive ==
    \E h \in Handlers :
        \/ \E u \in Users, q \in Questions, a \in Answers : ChatLoads(h, u, q, a)
        \/ \E u \in Users, q \in Questions, a \in Answers, rating \in Ratings :
              FeedbackLoads(h, u, q, a, rating)
        \/ Saves(h)

SpecArchive == InitArchive /\ [][NextArchive]_vars

(* C28: no write of a handler loses what another handler has written: when
   a handler saves, every record of the file is still there afterwards, as it
   was, save for the one record an update rates, and an append has added its
   record; so the file holds the effects of both handlers when both have
   returned. *)
C28_NoLostUpdate ==
    [][\A h \in Handlers :
          Saves(h) =>
              /\ Len(conversations') >= Len(conversations)
              /\ \A i \in 1..Len(conversations) :
                    \/ conversations'[i] = conversations[i]
                    \/ /\ req[h].op = "update"
                       /\ i = MatchIndex(conversations, req[h].u, req[h].q, req[h].a)
                       /\ conversations'[i] =
                              [conversations[i] EXCEPT !.rating = req[h].rating]
              /\ req[h].op = "append" =>
                    /\ Len(conversations') = Len(conversations) + 1
                    /\ Last(conversations').question = req[h].q
                    /\ Last(conversations').user_id = req[h].u
              /\ (req[h].op = "update"
                     /\ MatchIndex(conversations, req[h].u, req[h].q, req[h].a) # 0) =>
                    conversations'[MatchIndex(conversations, req[h].u, req[h].q, req[h].a)]
                        .rating = req[h].rating
      ]_vars

(* both handlers have returned, one from an append and one from an update,
   and the file holds the record of the one and the rating of the other *)
C28_Witness_AppendAndUpdateBothKept ==
    /\ Quiescent
    /\ req["h1"] # NoRequest /\ req["h1"].op = "update"
    /\ req["h2"] # NoRequest /\ req["h2"].op = "append"
    /\ Len(conversations) = 2
    /\ conversations[1].rating = req["h1"].rating
    /\ conversations[2].rating = NoRating
    /\ conversations[2].timestamp = req["h2"].ts

----------------------------------------------------------------------------
(* The error value of the parser and the test of its callers *)

(* is_parser_error of explain_material_amount_deviations:
   isinstance(parsed_response, dict) and 'error' in parsed_response *)
is_parser_error(parsed_response) ==
    /\ parsed_response.t = "object"
    /\ \E i \in 1..Len(parsed_response.kids) : parsed_response.kids[i].key = <<"error">>

(* C29: the value Parse returns for a failure is never the value it returns
   for a document it parsed: a result that is the error value, or that the
   caller's test takes for a parser error, comes from a failed parse only. *)
C29_FailureIsUnambiguous ==
    result.outcome = "return" =>
        /\ result.val = ErrorDict => ParseFailed(raw)
        /\ is_parser_error(result.val) => ParseFailed(raw)

----------------------------------------------------------------------------
(* Storing a rated conversation in the index and reading it back: feedback
   calls with one-line and two-line texts *)

Texts == {<<"t">>, <<"l1", NL, "l2">>}

InitRoundTrip ==
    /\ impl \in Impls
    /\ raw = <<>>
    /\ script = <<>>
    /\ bound = [calls |-> MaxStores, records |-> MaxRecords, index |-> MaxIndex,
                messages |-> 0]
    /\ Start

NextRoundTrip ==
    \/ \E u \in Users, q \in Texts, a \in Texts, rating \in Ratings,
          fb \in {None} \cup Texts : ProcessFeedbackFixed(u, q, a, rating, fb)
    \/ \E u \in Users, q \in Texts, a \in Texts, rating \in Ratings,
          fb \in {None} \cup Texts : UpdateFeedbackUpdated(u, q, a, rating, fb)

SpecRoundTrip == InitRoundTrip /\ [][NextRoundTrip]_vars

(* a text field as it is read back when nothing was stored for it *)
Normal(t) == IF Truthy(t) THEN t ELSE None

(* the fields an exemplar carries *)
Fields(c) ==
    [question |-> c.question, response |-> c.response, feedback |-> c.feedback,
     improved_response |-> c.improved_response]

(* C30: a feedback call stores one index entry, and the exemplar built from
   that entry, by the conversion of the similarity results as by the one of
   the full scan, carries the question, the answer, the feedback and the
   improved answer of the call. *)
C30_StoreThenReadIsRoundTrip ==
    [][\A u \in Users, q \in Texts, a \in Texts, rating \in Ratings,
         fb \in {None} \cup Texts :
          (Stored(u, rating, fb) /\ SubmitFeedback(u, q, a, rating, fb)) =>
              LET stored == [question |-> q, response |-> a, feedback |-> Normal(fb),
                             improved_response |-> Normal(lastCall'.improved)]
              IN /\ Len(chroma') = Len(chroma) + 1
                 /\ \A i \in (Len(chroma) + 1)..Len(chroma') :
                       /\ Fields(Candidate(chroma', <<i>>, 1)) = stored
                       /\ (impl = "fixed" /\ rating <= 2) =>
                              Fields(bad_conversation_fixed(chroma'[i])) = stored
      ]_vars
====
